---- MODULE Spec2Model ----
(***************************************************************************)
(* State-machine model of the rb26_survey editors:                         *)
(*   grid     - src/map_2.py, centered grid editor (base + offset = final) *)
(*   planner  - src/map_6.py, surveyor & precision planner                 *)
(*   image    - src/map_1.py, satellite-image editor with GeoMapper        *)
(*   surveyor - src/map_4.py, pre-water surveyor                           *)
(* Each editor is its own executable; `app` names the one that is running. *)
(*                                                                         *)
(* Lengths are integers counted in 1/PX_PER_M metre, so one length unit is *)
(* one scene pixel and 5 m is 40 units.  On that lattice every sum and     *)
(* difference the editors compute is exact in IEEE doubles as well, and    *)
(* round(v / CELL_SIZE_M) meets a tie only at an exact half, so the        *)
(* integer arithmetic below is the arithmetic of the code for the inputs   *)
(* that are enumerated.  Angles are counted in 1/UnitsPerDeg degree, the   *)
(* angle that is one length unit of northing.                              *)
(*                                                                         *)
(* A text field holds <<n>> when float() accepts it as n, and <<>> when    *)
(* float() raises ValueError (empty or non-numeric text).                  *)
(***************************************************************************)
EXTENDS Integers, Sequences, FiniteSets, TLC

VARIABLES
    app,        \* which editor runs: "grid", "planner", "image", "surveyor"
    ent,        \* the live Python item objects, by object identity
    scene,      \* identities of the items that are in the QGraphicsScene
    selected,   \* scene.selectedItems(), as a set
    sel,        \* the item scene.selectedItems()[0] is, 0 when none
    waypoints,  \* self.waypoints (grid, planner), self.points (image)
    missions,   \* self.missions (grid), self.elements (planner)
    snap,       \* snap_cb.isChecked()
    add_mode,   \* add_mode combo box (grid); panel_stack index (planner)
    origin,     \* <<origin_lat text, origin_lon text>>
    geomap,     \* image: GeoMapper, [p1, p2], each <<>> or <<CalPoint>>
    cal,        \* image: [mode: _cal_pick_mode, image: size of image_item,
                \*         status: status_lbl, readout: lat_box and lon_box]
    conv,       \* image: outcome of the last GeoMapper conversion call
    wpdata,     \* surveyor: self.waypoints_data
    crashed,    \* an exception left a Qt virtual: the process has aborted
    removed,    \* identities of the items taken out by delete / clear / load
    nextUid,    \* identity the next constructed item gets
    nops,       \* number of handlers that have run
    last,       \* the operation that ran last, with its arguments
    written     \* the file the handler that ran last wrote, <<>> when none

vars == <<app, ent, scene, selected, sel, waypoints, missions, snap, add_mode,
          origin, geomap, cal, conv, wpdata, crashed, removed, nextUid, nops,
          last, written>>

-----------------------------------------------------------------------------
(* Bounds of the model *)

MaxCreated == 2      \* items constructed in one run
MaxOps == 4          \* handlers run in one run

-----------------------------------------------------------------------------
(* Program constants *)

GRID_SIZE_M == 100
CELL_SIZE_M == 5
PX_PER_M == 8
M_PER_DEG_LAT == 111320

W_PX == GRID_SIZE_M * PX_PER_M
H_PX == GRID_SIZE_M * PX_PER_M
HALF_M == (GRID_SIZE_M * PX_PER_M) \div 2     \* 50 m, in length units
CELL == CELL_SIZE_M * PX_PER_M               \* 5 m, in length units
UnitsPerDeg == M_PER_DEG_LAT * PX_PER_M      \* angle units in one degree

-----------------------------------------------------------------------------
(* Text fields *)

Abs(v) == IF v < 0 THEN -v ELSE v


Num(n) == <<n>>
BadText == <<>>
IsNum(t) == Len(t) = 1
Val(t) == t[1]

\* the result of a call: a value, or the exception it raised
Return(v) == [err |-> "none", val |-> v]
Raise(x) == [err |-> x, val |-> <<>>]

\* a variant of float() that reads text that is not a number as 0
float_or_zero(t) == Return(IF IsNum(t) THEN Val(t) ELSE 0)

\* float(text): the number, or ValueError
float(t) == IF IsNum(t) THEN Return(Val(t)) ELSE Raise("ValueError")

-----------------------------------------------------------------------------
(* src/map_2.py: pure helpers *)

Max2(a, b) == IF a >= b THEN a ELSE b
Min2(a, b) == IF a <= b THEN a ELSE b

\* clamp without its lower bound
clamp_no_lower(v, lo, hi) == Min2(hi, v)

clamp(v, lo, hi) == Max2(lo, Min2(hi, v))

\* Python round(): nearest integer, ties to the even one.  q is v / c.
PyRound(v, c) ==
    LET q == v \div c
        r == v % c
    IN  IF 2 * r < c THEN q
        ELSE IF 2 * r > c THEN q + 1
        ELSE IF q % 2 = 0 THEN q ELSE q + 1

\* a variant that adds half a cell before rounding
snap_cell_biased(v, c) == PyRound(v + c \div 2, c) * c

\* the inner snap of snap_xy for a cell of c units: round(v / c) * c
snap_cell(v, c) == PyRound(v, c) * c

snapv(v) == snap_cell(v, CELL)

snap_xy(p) == IF ~snap THEN p ELSE <<snapv(p[1]), snapv(p[2])>>

\* a variant that clamps the x axis only
clamp_xy_x_only(p) == <<clamp(p[1], -HALF_M, HALF_M), p[2]>>

clamp_xy(p) == <<clamp(p[1], -HALF_M, HALF_M), clamp(p[2], -HALF_M, HALF_M)>>

px_to_meters(p) == <<p[1] - (W_PX \div 2), (H_PX \div 2) - p[2]>>

meters_to_px(p) == <<(W_PX \div 2) + p[1], (H_PX \div 2) - p[2]>>

\* math.cos(math.radians(90.0)) is 6.1e-17 and not 0: 1 / CosPoleDen stands
\* for it, the largest such power of ten that keeps the products of the
\* model within TLC's integers
CosPoleDen == 1000000

\* cos(radians(origin_lat)) as the fraction <<numerator, denominator>>, for
\* the origin latitudes the model enters (0, 60 and 90 degrees, north or
\* south).
CosFrac(lat) ==
    IF Abs(lat) = 60 * UnitsPerDeg THEN <<1, 2>>
    ELSE IF Abs(lat) = 90 * UnitsPerDeg THEN <<1, CosPoleDen>>
    ELSE <<1, 1>>

\* latlon_to_meters: <<east, north>> of (lat, lon) about the origin
latlon_to_meters(o_lat, o_lon, lat, lon) ==
    LET c == CosFrac(o_lat)
    IN  <<((lon - o_lon) * c[1]) \div c[2], lat - o_lat>>

\* a variant that takes a degree of longitude for as long as one of latitude
meters_to_latlon_equatorial(o_lat, o_lon, east_m, north_m) ==
    <<o_lat + north_m, o_lon + east_m>>

\* meters_to_latlon: <<lat, lon>> of (east, north) about the origin; dlon is
\* 0.0 when m_per_deg_lon is 0
meters_to_latlon(o_lat, o_lon, east_m, north_m) ==
    LET c    == CosFrac(o_lat)
        dlon == IF c[1] # 0 THEN (east_m * c[2]) \div c[1] ELSE 0
    IN  <<o_lat + north_m, o_lon + dlon>>

origin_is_valid == IsNum(origin[1]) /\ IsNum(origin[2])

final_from_item(e, u) == <<e[u].base_x + e[u].off_x, e[u].base_y + e[u].off_y>>

-----------------------------------------------------------------------------
(* src/map_2.py: the scene side of an item.                                *)
(* s is the item selected_item() returns while the handler runs.           *)

NoItem == 0

\* name is n for the default names "wp<n>" / "ms<n>", which an item made by
\* one of the add handlers gets with n = id
GridItem(kind, id, f, p) ==
    [kind |-> kind, id |-> id, name |-> id, base_x |-> f[1], base_y |-> f[2],
     off_x |-> 0, off_y |-> 0, x_px |-> p[1], y_px |-> p[2]]

pos(e, u) == <<e[u].x_px, e[u].y_px>>

\* itemChange(ItemPositionChange): the position Qt is about to set
itemChange(p) == <<clamp(p[1], 0, W_PX), clamp(p[2], 0, H_PX)>>

RECURSIVE setPos(_, _, _, _)

apply_item_to_scene(e, u, s) ==
    LET f  == snap_xy(clamp_xy(final_from_item(e, u)))
        e1 == [e EXCEPT ![u].base_x = f[1] - e[u].off_x,
                        ![u].base_y = f[2] - e[u].off_y]
    IN  setPos(e1, u, s, meters_to_px(f))

\* set_item_final that takes the final position for the base and drops the
\* offset
set_item_final_drops_offset(e, u, s, f) ==
    apply_item_to_scene([e EXCEPT ![u].base_x = f[1], ![u].base_y = f[2],
                                  ![u].off_x = 0, ![u].off_y = 0], u, s)

\* set_item_final without the call of _apply_item_to_scene
set_item_final_base_only(e, u, s, f) ==
    [e EXCEPT ![u].base_x = f[1] - e[u].off_x, ![u].base_y = f[2] - e[u].off_y]

set_item_final(e, u, s, f) ==
    apply_item_to_scene([e EXCEPT ![u].base_x = f[1] - e[u].off_x,
                                  ![u].base_y = f[2] - e[u].off_y], u, s)

\* set_item_offset that stores the offset and leaves the scene alone
set_item_offset_stored_only(e, u, s, o) ==
    [e EXCEPT ![u].off_x = o[1], ![u].off_y = o[2]]

\* set_item_offset that keeps the final position and moves the base
set_item_offset_keeps_final(e, u, s, o) ==
    apply_item_to_scene([e EXCEPT ![u].off_x = o[1], ![u].off_y = o[2],
                                  ![u].base_x = e[u].base_x + e[u].off_x - o[1],
                                  ![u].base_y = e[u].base_y + e[u].off_y - o[2]],
                        u, s)

set_item_offset(e, u, s, o) ==
    apply_item_to_scene([e EXCEPT ![u].off_x = o[1], ![u].off_y = o[2]], u, s)

on_item_moved(e, s) ==
    IF s = NoItem THEN e
    ELSE set_item_final(e, s, s, snap_xy(clamp_xy(px_to_meters(pos(e, s)))))

\* QGraphicsItem.setPos on an item that sends geometry changes: the new
\* position passes itemChange(ItemPositionChange); when it differs from the
\* current one it is stored and itemChange(ItemPositionHasChanged) runs
\* _on_changed, which is on_item_moved.
setPos(e, u, s, p) ==
    LET q == itemChange(p)
    IN  IF q = pos(e, u) THEN e
        ELSE on_item_moved([e EXCEPT ![u].x_px = q[1], ![u].y_px = q[2]], s)

\* the number of ItemPositionHasChanged notifications of the chain that
\* setPos(e, u, s, p) starts: each one runs on_item_moved, whose
\* set_item_final -> _apply_item_to_scene calls setPos on the selected item
RECURSIVE ChainLength(_, _, _, _)
ChainLength(e, u, s, p) ==
    LET q == itemChange(p)
    IN  IF q = pos(e, u) THEN 0
        ELSE IF s = NoItem THEN 1
        ELSE LET e1 == [e EXCEPT ![u].x_px = q[1], ![u].y_px = q[2]]
                 f  == snap_xy(clamp_xy(snap_xy(clamp_xy(px_to_meters(pos(e1, s))))))
                 e2 == [e1 EXCEPT ![s].base_x = f[1] - e1[s].off_x,
                                  ![s].base_y = f[2] - e1[s].off_y]
             IN  1 + ChainLength(e2, s, s, meters_to_px(f))

\* the same for the chain _apply_item_to_scene(e, u) starts
ApplyChainLength(e, u, s) ==
    LET f  == snap_xy(clamp_xy(final_from_item(e, u)))
        e1 == [e EXCEPT ![u].base_x = f[1] - e[u].off_x,
                        ![u].base_y = f[2] - e[u].off_y]
    IN  ChainLength(e1, u, s, meters_to_px(f))

-----------------------------------------------------------------------------
(* Inputs of the grid editor *)

Deg60 == 60 * UnitsPerDeg

\* text typed into the X / Y boxes (length units)
XYInputs == { <<Num(-440), Num(20)>>, <<Num(100), Num(440)>>,
              <<Num(60), Num(-100)>>, <<Num(60), BadText>> }

\* text typed into the Offset X / Offset Y boxes
OffsetInputs == { <<Num(0), Num(0)>>, <<Num(30), Num(10)>>,
                  <<BadText, Num(0)>> }

\* text typed into the Lat / Lon boxes (angle units)
LatLonInputs == { <<Num(Deg60 + 100), Num(120)>>, <<Num(Deg60 - 20), Num(1000)>>,
                  <<BadText, Num(0)>> }

\* text typed into the origin boxes
OriginInputs == { <<Num(Deg60), Num(0)>>, <<BadText, Num(0)>> }

\* scene positions of a double click / of the mouse while dragging
ClickInputs == { <<460, 300>>, <<-3, 812>> }
DragInputs == { <<830, 395>>, <<420, 380>> }

\* records of a mission file: x, y and offset as float() sees them
\* (name: the n of "wp<n>" / "ms<n>", or BadText when the key is missing)
RecA == [name |-> Num(7), x |-> Num(440), y |-> Num(20), ox |-> Num(30), oy |-> Num(-10)]
RecB == [name |-> BadText, x |-> Num(60), y |-> Num(-100), ox |-> Num(0), oy |-> Num(0)]
RecBad == [name |-> BadText, x |-> BadText, y |-> Num(0), ox |-> Num(0), oy |-> Num(0)]
MissionFiles ==
    { [origin |-> <<Num(Deg60), Num(0)>>, waypoints |-> <<RecA, RecBad, RecB>>,
       mission_elements |-> <<>>],
      [origin |-> <<BadText, BadText>>, waypoints |-> <<RecBad, RecA>>,
       mission_elements |-> <<RecB>>],
      [origin |-> <<BadText, BadText>>, waypoints |-> <<>>,
       mission_elements |-> <<>>] }

RecOk(r) == IsNum(r.x) /\ IsNum(r.y) /\ IsNum(r.ox) /\ IsNum(r.oy)

RECURSIVE CountOk(_)
CountOk(recs) ==
    IF recs = <<>> THEN 0
    ELSE (IF RecOk(Head(recs)) THEN 1 ELSE 0) + CountOk(Tail(recs))

-----------------------------------------------------------------------------
(* src/map_2.py: handlers *)

NoEnt == [u \in {} |-> 0]

\* handler entry in editor a, within the length of run the model covers
NoFile == <<>>

\* a handler that writes no file runs
Run(a) ==
    /\ app = a /\ ~crashed /\ nops < MaxOps /\ nops' = nops + 1
    /\ written' = NoFile

\* a handler that may write a file runs
RunSave(a) == app = a /\ ~crashed /\ nops < MaxOps /\ nops' = nops + 1

Op(op, u, req) == [op |-> op, u |-> u, req |-> req]

OtherApps == <<geomap, cal, conv, wpdata, crashed>>

\* final position a new item is created at
\* create without the clamp
add_final_unclamped(req) == snap_xy(req)

add_final(req) == snap_xy(clamp_xy(req))

\* _add_waypoint / _add_mission, select=True
AddItem(kind, req, op) ==
    LET f  == add_final(req)
        u  == nextUid
        n  == IF kind = "waypoint" THEN Len(waypoints) ELSE Len(missions)
    IN  /\ Run("grid")
        /\ nextUid <= MaxCreated
        /\ ent' = ent @@ (u :> GridItem(kind, n + 1, f, meters_to_px(f)))
        /\ scene' = scene \cup {u}
        /\ waypoints' = IF kind = "waypoint" THEN Append(waypoints, u) ELSE waypoints
        /\ missions' = IF kind = "waypoint" THEN missions ELSE Append(missions, u)
        /\ selected' = selected \cup {u}
        /\ sel' \in selected'
        /\ nextUid' = u + 1
        /\ last' = Op(op, u, req)
        /\ UNCHANGED <<app, snap, add_mode, origin, removed>>
        /\ UNCHANGED OtherApps

add_waypoint_center == AddItem("waypoint", <<0, 0>>, "add")

add_mission_center == AddItem("mission", <<0, 0>>, "add")

handle_double_click_add ==
    \E p \in ClickInputs : AddItem(add_mode, px_to_meters(p), "add")

SetAddMode ==
    /\ Run("grid")
    /\ add_mode' = IF add_mode = "waypoint" THEN "mission" ELSE "waypoint"
    /\ last' = Op("add_mode", NoItem, <<0, 0>>)
    /\ UNCHANGED <<app, ent, scene, selected, sel, waypoints, missions, snap,
                   origin, removed, nextUid>>
    /\ UNCHANGED OtherApps

ToggleSnap ==
    /\ Run("grid")
    /\ snap' = ~snap
    /\ last' = Op("snap", NoItem, <<0, 0>>)
    /\ UNCHANGED <<app, ent, scene, selected, sel, waypoints, missions, add_mode,
                   origin, removed, nextUid>>
    /\ UNCHANGED OtherApps

EditOrigin ==
    /\ Run("grid")
    /\ \E o \in OriginInputs : origin' = o
    /\ last' = Op("origin", NoItem, <<0, 0>>)
    /\ UNCHANGED <<app, ent, scene, selected, sel, waypoints, missions, snap,
                   add_mode, removed, nextUid>>
    /\ UNCHANGED OtherApps

\* the frame of a handler that edits items in place
EditFrame ==
    /\ UNCHANGED <<app, scene, waypoints, missions, snap, add_mode, origin,
                   removed, nextUid>>
    /\ UNCHANGED OtherApps

\* a press and release on an item: it becomes the only selected item
ClickItem ==
    /\ Run("grid")
    /\ \E u \in scene :
          /\ selected # {u}
          /\ selected' = {u}
          /\ sel' = u
          /\ last' = Op("click", u, <<0, 0>>)
    /\ UNCHANGED ent
    /\ EditFrame

\* what was asked for: an edit of kind op, or op_invalid when a field typed
\* into is not a number
Asked(op, t) ==
    IF \A i \in 1..Len(t) : IsNum(t[i]) THEN op ELSE op \o "_invalid"

apply_from_xy_boxes ==
    /\ Run("grid")
    /\ sel # NoItem
    /\ \E t \in XYInputs :
          LET x == float(t[1])
              y == float(t[2])
          IN  IF x.err = "none" /\ y.err = "none"
              THEN LET req == <<x.val, y.val>>
                   IN  /\ ent' = set_item_final(ent, sel, sel,
                                                snap_xy(clamp_xy(req)))
                       /\ last' = Op(Asked("xy", t), sel, req)
              ELSE /\ ent' = ent
                   /\ last' = Op(Asked("xy", t), sel, <<0, 0>>)
    /\ UNCHANGED <<selected, sel>>
    /\ EditFrame

apply_from_latlon_boxes ==
    /\ Run("grid")
    /\ sel # NoItem
    /\ \E t \in LatLonInputs :
          IF ~origin_is_valid
          THEN /\ ent' = ent
               /\ last' = Op("latlon_no_origin", sel, <<0, 0>>)
          ELSE LET lat == float(t[1])
                   lon == float(t[2])
               IN  IF lat.err = "none" /\ lon.err = "none"
                   THEN LET req == latlon_to_meters(Val(origin[1]), Val(origin[2]),
                                                    lat.val, lon.val)
                        IN  /\ ent' = set_item_final(ent, sel, sel,
                                                     snap_xy(clamp_xy(req)))
                            /\ last' = Op(Asked("latlon", t), sel, req)
                   ELSE /\ ent' = ent
                        /\ last' = Op(Asked("latlon", t), sel, <<0, 0>>)
    /\ UNCHANGED <<selected, sel>>
    /\ EditFrame

apply_selected_offset_set ==
    /\ Run("grid")
    /\ sel # NoItem
    /\ \E t \in OffsetInputs :
          LET ox == float(t[1])
              oy == float(t[2])
          IN  IF ox.err = "none" /\ oy.err = "none"
              THEN LET o == <<ox.val, oy.val>>
                   IN  /\ ent' = set_item_offset(ent, sel, sel, o)
                       /\ last' = Op(Asked("offset", t), sel, o)
              ELSE /\ ent' = ent
                   /\ last' = Op(Asked("offset", t), sel, <<0, 0>>)
    /\ UNCHANGED <<selected, sel>>
    /\ EditFrame

\* the orders in which Qt may visit the items of a set
Orders(S) ==
    { o \in [1..Cardinality(S) -> S] :
        \A i, j \in 1..Cardinality(S) : i # j => o[i] # o[j] }

\* QGraphicsItem.mouseMoveEvent: every selected item is set to the position
\* it had at the press (e0) plus the displacement d of the mouse
RECURSIVE MoveItems(_, _, _, _, _)
MoveItems(e, e0, order, s, d) ==
    IF Len(order) = 0 THEN e
    ELSE LET u == order[1]
         IN  MoveItems(setPos(e, u, s, <<e0[u].x_px + d[1], e0[u].y_px + d[2]>>),
                       e0, SubSeq(order, 2, Len(order)), s, d)

\* a press on item g, then the mouse moved to scene position t: a press on an
\* unselected item makes it the only selected one.  The step is a "drag" when
\* a position changed, so that on_item_moved ran, and a "drag_none" when
\* every setPos met the position the item already had.
DragItem ==
    /\ Run("grid")
    /\ \E g \in scene, t \in DragInputs :
          LET selN == IF g \in selected THEN selected ELSE {g}
              sN   == IF g \in selected THEN sel ELSE g
              d    == <<t[1] - ent[g].x_px, t[2] - ent[g].y_px>>
          IN  /\ selected' = selN
              /\ sel' = sN
              /\ \E o \in Orders(selN) : ent' = MoveItems(ent, ent, o, sN, d)
              /\ last' = Op(IF ent' # ent THEN "drag" ELSE "drag_none", g, t)
    /\ EditFrame

\* a variant of the loop of load_json that leaves the offset of a loaded
\* item at zero
RECURSIVE LoadRecs_no_offset(_, _, _)
LoadRecs_no_offset(st, recs, kind) ==
    IF recs = <<>> THEN st
    ELSE LET r == Head(recs)
         IN  IF ~RecOk(r) THEN LoadRecs_no_offset(st, Tail(recs), kind)
             ELSE LET req == <<Val(r.x), Val(r.y)>>
                      f   == add_final(req)
                      u   == st.uid
                      n   == Len(st.lst) + 1
                      e1  == st.e @@ (u :> GridItem(kind, n, f, meters_to_px(f)))
                      e2  == [e1 EXCEPT ![u].name = IF IsNum(r.name)
                                                    THEN Val(r.name) ELSE n]
                      e3  == apply_item_to_scene(e2, u, NoItem)
                  IN  LoadRecs_no_offset(
                          [e |-> e3, lst |-> Append(st.lst, u), uid |-> u + 1],
                          Tail(recs), kind)

\* one loop of load_json over the records of a kind; st = [e, lst, uid]
RECURSIVE LoadRecs(_, _, _)
LoadRecs(st, recs, kind) ==
    IF recs = <<>> THEN st
    ELSE LET r == Head(recs)
         IN  IF ~RecOk(r) THEN LoadRecs(st, Tail(recs), kind)
             ELSE LET req == <<Val(r.x), Val(r.y)>>
                      f   == add_final(req)
                      u   == st.uid
                      n   == Len(st.lst) + 1
                      e1  == st.e @@ (u :> GridItem(kind, n, f, meters_to_px(f)))
                      e2  == [e1 EXCEPT ![u].name = IF IsNum(r.name)
                                                    THEN Val(r.name) ELSE n,
                                        ![u].off_x = Val(r.ox),
                                        ![u].off_y = Val(r.oy),
                                        ![u].base_x = req[1] - Val(r.ox),
                                        ![u].base_y = req[2] - Val(r.oy)]
                      e3  == apply_item_to_scene(e2, u, NoItem)
                  IN  LoadRecs([e |-> e3, lst |-> Append(st.lst, u), uid |-> u + 1],
                               Tail(recs), kind)

\* "Renumber IDs sequentially"
Renumber(e, lst) ==
    [u \in DOMAIN e |->
        IF \E i \in 1..Len(lst) : lst[i] = u
        THEN [e[u] EXCEPT !.id = CHOOSE i \in 1..Len(lst) : lst[i] = u]
        ELSE e[u]]

\* json.load of a file save_json wrote: every number comes back as written
FileRecord(r) ==
    [name |-> Num(r.name), x |-> Num(r.x), y |-> Num(r.y),
     ox |-> Num(r.off_x), oy |-> Num(r.off_y)]
FileOf(w) ==
    [origin |-> w.origin,
     waypoints |-> [i \in 1..Len(w.waypoints) |-> FileRecord(w.waypoints[i])],
     mission_elements |->
         [i \in 1..Len(w.mission_elements) |-> FileRecord(w.mission_elements[i])]]

\* the files the dialog can pick: the prepared ones, and the file the save
\* just before wrote
SavedFiles == IF written = NoFile THEN {} ELSE {FileOf(written[1])}

load_json ==
    /\ Run("grid")
    /\ \E f \in MissionFiles \cup SavedFiles :
          /\ \/ f \in SavedFiles
             \/ nextUid + CountOk(f.waypoints) + CountOk(f.mission_elements)
                   <= MaxCreated + 1
          /\ LET w == LoadRecs([e |-> NoEnt, lst |-> <<>>, uid |-> nextUid],
                               f.waypoints, "waypoint")
                 m == LoadRecs([e |-> w.e, lst |-> <<>>, uid |-> w.uid],
                               f.mission_elements, "mission")
                 e == Renumber(Renumber(m.e, w.lst), m.lst)
                 first == IF Len(w.lst) > 0 THEN w.lst[1]
                          ELSE IF Len(m.lst) > 0 THEN m.lst[1] ELSE NoItem
             IN  /\ ent' = e
                 /\ waypoints' = w.lst
                 /\ missions' = m.lst
                 /\ scene' = DOMAIN e
                 /\ selected' = IF first = NoItem THEN {} ELSE {first}
                 /\ sel' = first
                 /\ nextUid' = m.uid
                 /\ removed' = removed \cup DOMAIN ent
                 /\ origin' = f.origin
                 /\ last' = Op("load", first,
                               <<IF f \in SavedFiles THEN 1 ELSE 0,
                                 Len(f.waypoints) + Len(f.mission_elements)>>)
    /\ UNCHANGED <<app, snap, add_mode>>
    /\ UNCHANGED OtherApps

\* one entry of the "waypoints" / "mission_elements" lists of save_json;
\* round(v, 3) changes no multiple of 1/PX_PER_M m
SavedItem(e, u) ==
    LET f == final_from_item(e, u)
    IN  [id |-> e[u].id, name |-> e[u].name, x |-> f[1], y |-> f[2],
         off_x |-> e[u].off_x, off_y |-> e[u].off_y]

\* save_json: the file dialog gives a path or is dismissed; the origin block
\* is the text of the two origin fields as it stands
save_json ==
    /\ RunSave("grid")
    /\ \E path \in BOOLEAN :
          IF ~path
          THEN /\ written' = NoFile
               /\ last' = Op("save_canceled", NoItem, <<0, 0>>)
          ELSE /\ written' =
                    << [origin |-> origin,
                        waypoints |->
                            [i \in 1..Len(waypoints) |-> SavedItem(ent, waypoints[i])],
                        mission_elements |->
                            [i \in 1..Len(missions) |-> SavedItem(ent, missions[i])]] >>
               /\ last' = Op("save", NoItem, <<Len(waypoints), Len(missions)>>)
    /\ UNCHANGED <<ent, selected, sel>>
    /\ EditFrame

clear_all ==
    /\ Run("grid")
    /\ ent' = NoEnt
    /\ scene' = {}
    /\ waypoints' = <<>>
    /\ missions' = <<>>
    /\ selected' = {}
    /\ sel' = NoItem
    /\ removed' = removed \cup DOMAIN ent
    /\ last' = Op("clear", NoItem, <<0, 0>>)
    /\ UNCHANGED <<app, snap, add_mode, origin, nextUid>>
    /\ UNCHANGED OtherApps

-----------------------------------------------------------------------------
(* The grid editor *)

InitCommon ==
    /\ ent = NoEnt
    /\ scene = {}
    /\ selected = {}
    /\ sel = NoItem
    /\ waypoints = <<>>
    /\ missions = <<>>
    /\ snap = FALSE
    /\ add_mode = "waypoint"
    /\ origin = <<BadText, BadText>>
    /\ geomap = [p1 |-> <<>>, p2 |-> <<>>]
    /\ cal = [mode |-> 0, image |-> <<>>, status |-> "tip", readout |-> [kind |-> "empty", ll |-> <<>>]]
    /\ conv = [call |-> "none", result |-> "none"]
    /\ wpdata = <<>>
    /\ crashed = FALSE
    /\ removed = {}
    /\ nextUid = 1
    /\ nops = 0
    /\ written = NoFile
    /\ last = Op("init", NoItem, <<0, 0>>)

InitGrid == app = "grid" /\ InitCommon

NextGrid ==
    \/ add_waypoint_center
    \/ add_mission_center
    \/ handle_double_click_add
    \/ SetAddMode
    \/ ToggleSnap
    \/ EditOrigin
    \/ ClickItem
    \/ DragItem
    \/ apply_from_xy_boxes
    \/ apply_from_latlon_boxes
    \/ apply_selected_offset_set
    \/ load_json
    \/ save_json
    \/ clear_all

SpecGrid == InitGrid /\ [][NextGrid]_vars

-----------------------------------------------------------------------------
(* src/map_6.py: surveyor & precision planner.                             *)
(* An item is [kind, x_px, y_px, start_x, start_y, lat, lon, label,        *)
(* movable]; label is the number shown after "O" / "W", 0 before the first *)
(* refresh.  lat is the displacement of the latitude from ORIGIN_LAT in    *)
(* angle units, lon the displacement of the longitude from ORIGIN_LON in   *)
(* units of one length unit of easting at the origin.                      *)

R_EARTH == 6371000
\* metres in one degree of a great circle of radius R_EARTH, R_EARTH * pi / 180,
\* with 71 / 4068 for pi / 180 (pi taken as 355 / 113)
SphereMPerDeg == (R_EARTH * 71) \div 4068

CENTER_X_PX == W_PX \div 2
CENTER_Y_PX == (H_PX * 9) \div 10

\* MapItem.update_coords with meters_to_latlon: <<lat, lon>> of a position
update_coords(x, y) ==
    LET nm == x - CENTER_X_PX
        em == y - CENTER_Y_PX
    IN  <<nm, em>>

\* Waypoint.__init__ / MissionElement.__init__: setPos, setup_base,
\* update_coords, then the flags (movable, selectable, geometry changes)
PlanItem(kind, x, y) ==
    [kind |-> kind, x_px |-> x, y_px |-> y, start_x |-> x, start_y |-> y,
     lat |-> update_coords(x, y)[1], lon |-> update_coords(x, y)[2],
     label |-> 0, movable |-> TRUE]

\* calculate_forward_geodesic / calculate_projection on a true bearing, for
\* the bearings at which the spherical formula is closed-form: due north and
\* due south move the latitude by degrees(distance / R_EARTH) and keep the
\* longitude; a distance of 0 returns the start point.
\* lat, lon in angle units, dist in length units.
\* degrees(asin(sin(radians(lat)))): lat itself between the poles, its
\* reflection in the pole beyond one (for lat within 270 degrees of 0)
AsinSin(lat) ==
    IF lat > 90 * UnitsPerDeg THEN 180 * UnitsPerDeg - lat
    ELSE IF lat < -90 * UnitsPerDeg THEN -180 * UnitsPerDeg - lat
    ELSE lat

\* a variant whose longitude leaves out the start longitude
forward_geodesic_delta_lon(lat, lon, true_brg, dist) ==
    LET dlat == (dist * M_PER_DEG_LAT) \div SphereMPerDeg
    IN  IF dist = 0 THEN <<AsinSin(lat), 0>>
        ELSE IF true_brg % 360 = 0 THEN <<lat + dlat, 0>>
        ELSE <<lat - dlat, 0>>

\* with delta = 0: phi2 = asin(sin(phi1)), lam2 = lam1 + atan2(0, cos(phi1) ** 2)
forward_geodesic(lat, lon, true_brg, dist) ==
    LET dlat == (dist * M_PER_DEG_LAT) \div SphereMPerDeg
    IN  IF dist = 0 THEN <<AsinSin(lat), lon>>
        ELSE IF true_brg % 360 = 0 THEN <<lat + dlat, lon>>
        ELSE <<lat - dlat, lon>>

calculate_projection(user_lat, user_lon, west_brg, dist) ==
    forward_geodesic(user_lat, user_lon, (270 + west_brg) % 360, dist)

\* refresh_table_data: the labels O1.. and W1.. in list order
IndexIn(lst, u) == CHOOSE i \in 1..Len(lst) : lst[i] = u

refresh_table_data(e, els, wps) ==
    [u \in DOMAIN e |->
        IF \E i \in 1..Len(els) : els[i] = u
        THEN [e[u] EXCEPT !.label = IndexIn(els, u)]
        ELSE IF \E i \in 1..Len(wps) : wps[i] = u
        THEN [e[u] EXCEPT !.label = IndexIn(wps, u)]
        ELSE e[u]]

\* get_displacement_m squared, in units: dx ** 2 + dy ** 2 of the current
\* position against start_pos (its root is not rational in general)
get_displacement_m(e, u) ==
    LET dx == e[u].x_px - e[u].start_x
        dy == e[u].y_px - e[u].start_y
    IN  dx * dx + dy * dy

\* a variant of setPos that takes the new position as the start position
PlanSetPos_restart(e, u, p, els, wps) ==
    IF p = pos(e, u) THEN e
    ELSE refresh_table_data(
             [e EXCEPT ![u].x_px = p[1], ![u].y_px = p[2],
                       ![u].start_x = p[1], ![u].start_y = p[2],
                       ![u].lat = update_coords(p[1], p[2])[1],
                       ![u].lon = update_coords(p[1], p[2])[2]], els, wps)

\* QGraphicsItem.setPos with itemChange(ItemPositionHasChanged):
\* update_coords, then on_move, which is refresh_table_data
PlanSetPos(e, u, p, els, wps) ==
    IF p = pos(e, u) THEN e
    ELSE refresh_table_data(
             [e EXCEPT ![u].x_px = p[1], ![u].y_px = p[2],
                       ![u].lat = update_coords(p[1], p[2])[1],
                       ![u].lon = update_coords(p[1], p[2])[2]], els, wps)

RECURSIVE PlanMove(_, _, _, _, _, _)
PlanMove(e, e0, order, d, els, wps) ==
    IF Len(order) = 0 THEN e
    ELSE LET u == order[1]
         IN  PlanMove(PlanSetPos(e, u, <<e0[u].x_px + d[1], e0[u].y_px + d[2]>>,
                                 els, wps),
                      e0, SubSeq(order, 2, Len(order)), d, els, wps)

\* list.remove(item) for every item of a set
Without(lst, S) == SelectSeq(lst, LAMBDA u : u \notin S)

\* scene.removeItem(item) for every item of a set
\* a delete that forgets scene.removeItem
RemoveItems_forgotten(sc, S) == sc

RemoveItems(sc, S) == sc \ S

Members(lst) == { lst[i] : i \in 1..Len(lst) }

\* the item objects that are still referenced
Live(e, sc, els, wps) ==
    [u \in (DOMAIN e) \cap (sc \cup Members(els) \cup Members(wps)) |-> e[u]]

(* Inputs of the planner *)
PlanClickInputs == { <<400, 300>> }
PlanDragInputs == { <<420, 380>> }
\* in_lat, in_lon, nudge_up, nudge_right (metres as length units)
NudgeInputs == { [in_lat |-> Num(8), in_lon |-> Num(16), up |-> Num(0), right |-> Num(0)],
                 [in_lat |-> BadText, in_lon |-> Num(16), up |-> Num(8), right |-> Num(8)] }
\* in_lat, in_lon (angle units from the origin), in_brg (degrees), in_dist
ProjectInputs == { [lat |-> Num(0), lon |-> Num(-80), brg |-> Num(90), dist |-> Num(160)],
                   [lat |-> Num(0), lon |-> Num(0), brg |-> BadText, dist |-> Num(160)] }

PlanFrame ==
    /\ UNCHANGED <<app, snap, origin>>
    /\ UNCHANGED OtherApps

\* a new item enters the scene and its list, then refresh_table_data
PlanAdd(kind, x, y, op) ==
    LET u   == nextUid
        els == IF kind = "element" THEN Append(missions, u) ELSE missions
        wps == IF kind = "element" THEN waypoints ELSE Append(waypoints, u)
    IN  /\ nextUid <= MaxCreated
        /\ ent' = refresh_table_data(ent @@ (u :> PlanItem(kind, x, y)), els, wps)
        /\ scene' = scene \cup {u}
        /\ missions' = els
        /\ waypoints' = wps
        /\ nextUid' = u + 1
        /\ last' = Op(op, u, <<x, y>>)
        /\ UNCHANGED <<add_mode, removed>>

\* the double click starts with a press on the background, which clears the
\* selection
handle_map_double_click ==
    /\ Run("planner")
    /\ \E p \in PlanClickInputs :
          PlanAdd(IF add_mode = 0 THEN "element" ELSE "waypoint", p[1], p[2], "add")
    /\ selected' = {}
    /\ sel' = NoItem
    /\ PlanFrame

add_surveyed_element_by_input ==
    /\ Run("planner")
    /\ \E t \in ProjectInputs :
          IF IsNum(t.lat) /\ IsNum(t.lon) /\ IsNum(t.brg) /\ IsNum(t.dist)
          THEN LET ll == calculate_projection(Val(t.lat), Val(t.lon), Val(t.brg),
                                              Val(t.dist))
                   \* latlon_to_meters: em from the longitude, nm from the latitude
                   em == ll[2]
                   nm == ll[1]
               IN  PlanAdd("element", CENTER_X_PX + nm, CENTER_Y_PX + em, "project")
          ELSE /\ last' = Op("project_invalid", NoItem, <<0, 0>>)
               /\ UNCHANGED <<ent, scene, missions, waypoints, nextUid, add_mode,
                              removed>>
    /\ UNCHANGED <<selected, sel>>
    /\ PlanFrame

switch_mode ==
    /\ Run("planner")
    /\ \E index \in {0, 1} :
          /\ add_mode' = index
          /\ ent' = [u \in DOMAIN ent |->
                        IF u \in Members(missions) \cup Members(waypoints)
                        THEN [ent[u] EXCEPT !.movable = (index = 1)]
                        ELSE ent[u]]
          /\ last' = Op("mode", NoItem, <<index, 0>>)
    /\ UNCHANGED <<scene, selected, sel, waypoints, missions, removed, nextUid>>
    /\ PlanFrame

\* a press on an item: with Ctrl the item is toggled in the selection,
\* without it the item becomes the only selected one
PlanClickItem ==
    /\ Run("planner")
    /\ \E u \in scene, ctrl \in BOOLEAN :
          /\ selected' = IF ctrl
                         THEN (IF u \in selected THEN selected \ {u}
                               ELSE selected \cup {u})
                         ELSE {u}
          /\ selected' # selected
          /\ sel' = IF selected' = {} THEN NoItem
                    ELSE IF sel \in selected' THEN sel ELSE u
          /\ last' = Op("click", u, <<0, 0>>)
    /\ UNCHANGED <<ent, scene, waypoints, missions, add_mode, removed, nextUid>>
    /\ PlanFrame

\* a press on a movable item g and a mouse move to t: every selected movable
\* item follows
PlanDragItem ==
    /\ Run("planner")
    /\ \E g \in scene, t \in PlanDragInputs :
          LET selN == IF g \in selected THEN selected ELSE {g}
              mov  == { u \in selN : ent[u].movable }
              d    == <<t[1] - ent[g].x_px, t[2] - ent[g].y_px>>
          IN  /\ ent[g].movable
              /\ selected' = selN
              /\ sel' = IF g \in selected THEN sel ELSE g
              /\ \E o \in Orders(mov) :
                    ent' = PlanMove(ent, ent, o, d, missions, waypoints)
              /\ last' = Op("drag", g, t)
    /\ UNCHANGED <<scene, waypoints, missions, add_mode, removed, nextUid>>
    /\ PlanFrame

nudge_selected_item ==
    /\ Run("planner")
    /\ selected # {}
    /\ \E t \in NudgeInputs :
          IF IsNum(t.in_lat) /\ IsNum(t.in_lon)
          THEN LET d == <<Val(t.in_lon), -Val(t.in_lat)>>
               IN  /\ \E o \in Orders(selected) :
                         ent' = refresh_table_data(
                                    PlanMove(ent, ent, o, d, missions, waypoints),
                                    missions, waypoints)
                   /\ last' = Op("nudge", sel, t)
          ELSE /\ ent' = ent
               /\ last' = Op("nudge_invalid", sel, t)
    /\ UNCHANGED <<scene, selected, sel, waypoints, missions, add_mode, removed,
                   nextUid>>
    /\ PlanFrame

delete_selected_item ==
    /\ Run("planner")
    /\ selected # {}
    /\ LET els == Without(missions, selected)
           wps == Without(waypoints, selected)
           sc  == RemoveItems(scene, selected)
       IN  /\ missions' = els
           /\ waypoints' = wps
           /\ scene' = sc
           /\ ent' = refresh_table_data(Live(ent, sc, els, wps), els, wps)
           /\ selected' = selected \cap sc
           /\ sel' = IF sel \in sc THEN sel ELSE NoItem
           /\ removed' = removed \cup selected
           /\ last' = Op("delete", NoItem, <<0, 0>>)
    /\ UNCHANGED <<add_mode, nextUid>>
    /\ PlanFrame

InitPlanner ==
    /\ app = "planner"
    /\ ent = NoEnt /\ scene = {} /\ selected = {} /\ sel = NoItem
    /\ waypoints = <<>> /\ missions = <<>>
    /\ snap = FALSE
    /\ add_mode = 0
    /\ origin = <<BadText, BadText>>
    /\ geomap = [p1 |-> <<>>, p2 |-> <<>>]
    /\ cal = [mode |-> 0, image |-> <<>>, status |-> "tip", readout |-> [kind |-> "empty", ll |-> <<>>]]
    /\ conv = [call |-> "none", result |-> "none"]
    /\ wpdata = <<>>
    /\ crashed = FALSE
    /\ removed = {}
    /\ nextUid = 1
    /\ nops = 0
    /\ written = NoFile
    /\ last = Op("init", NoItem, <<0, 0>>)

NextPlanner ==
    \/ handle_map_double_click
    \/ add_surveyed_element_by_input
    \/ switch_mode
    \/ PlanClickItem
    \/ PlanDragItem
    \/ nudge_selected_item
    \/ delete_selected_item

SpecPlanner == InitPlanner /\ [][NextPlanner]_vars

-----------------------------------------------------------------------------
(* src/map_1.py: satellite-image editor.                                   *)
(* Pixel coordinates, latitudes and longitudes of this editor are exact    *)
(* rationals <<numerator, denominator>> in lowest terms with a positive    *)
(* denominator.  A point is [idx, x_px, y_px].                             *)

RECURSIVE Gcd(_, _)
Gcd(a, b) == IF b = 0 THEN a ELSE Gcd(b, a % b)

Rat(n, d) ==
    LET g == Gcd(Abs(n), Abs(d))
        sg == IF d < 0 THEN -1 ELSE 1
    IN  <<(sg * n) \div g, (sg * d) \div g>>

R(n) == <<n, 1>>
RAdd(a, b) == Rat(a[1] * b[2] + b[1] * a[2], a[2] * b[2])
RSub(a, b) == Rat(a[1] * b[2] - b[1] * a[2], a[2] * b[2])
RMul(a, b) == Rat(a[1] * b[1], a[2] * b[2])
RDiv(a, b) == Rat(a[1] * b[2], a[2] * b[1])

CalPoint(px, py, lat, lon) == [px |-> R(px), py |-> R(py), lat |-> R(lat), lon |-> R(lon)]

\* GeoMapper.__init__
NoCal == [p1 |-> <<>>, p2 |-> <<>>]

\* a call either returns a value or raises

\* is_ready without the comparison of the latitudes
is_ready_no_lat(g) ==
    IF g.p1 = <<>> \/ g.p2 = <<>> THEN FALSE
    ELSE /\ g.p2[1].px # g.p1[1].px
         /\ g.p2[1].py # g.p1[1].py
         /\ g.p2[1].lon # g.p1[1].lon

is_ready(g) ==
    IF g.p1 = <<>> \/ g.p2 = <<>> THEN FALSE
    ELSE /\ g.p2[1].px # g.p1[1].px
         /\ g.p2[1].py # g.p1[1].py
         /\ g.p2[1].lon # g.p1[1].lon
         /\ g.p2[1].lat # g.p1[1].lat

set_points(g, p1, p2) == [g EXCEPT !.p1 = <<p1>>, !.p2 = <<p2>>]

\* a variant that returns the pair as (lon, lat)
px_to_ll_body_lonlat(g, px, py) ==
    IF g.p1 = <<>> \/ g.p2 = <<>> THEN Raise("AttributeError")
    ELSE LET p1 == g.p1[1]
             p2 == g.p2[1]
             dpx == RSub(p2.px, p1.px)
             dpy == RSub(p2.py, p1.py)
         IN  IF dpx[1] = 0 \/ dpy[1] = 0 THEN Raise("ZeroDivisionError")
             ELSE LET lon == RAdd(p1.lon, RDiv(RMul(RSub(px, p1.px),
                                                    RSub(p2.lon, p1.lon)), dpx))
                      lat == RAdd(p1.lat, RDiv(RMul(RSub(py, p1.py),
                                                    RSub(p2.lat, p1.lat)), dpy))
                  IN  Return(<<lon, lat>>)

\* the interpolation of px_to_ll, as Python evaluates it
px_to_ll_body(g, px, py) ==
    IF g.p1 = <<>> \/ g.p2 = <<>> THEN Raise("AttributeError")
    ELSE LET p1 == g.p1[1]
             p2 == g.p2[1]
             dpx == RSub(p2.px, p1.px)
             dpy == RSub(p2.py, p1.py)
         IN  IF dpx[1] = 0 \/ dpy[1] = 0 THEN Raise("ZeroDivisionError")
             ELSE LET lon == RAdd(p1.lon, RDiv(RMul(RSub(px, p1.px),
                                                    RSub(p2.lon, p1.lon)), dpx))
                      lat == RAdd(p1.lat, RDiv(RMul(RSub(py, p1.py),
                                                    RSub(p2.lat, p1.lat)), dpy))
                  IN  Return(<<lat, lon>>)

px_to_ll(g, px, py) ==
    IF ~is_ready(g) THEN Raise("RuntimeError") ELSE px_to_ll_body(g, px, py)

\* the interpolation of ll_to_px, as Python evaluates it
ll_to_px_body(g, lat, lon) ==
    IF g.p1 = <<>> \/ g.p2 = <<>> THEN Raise("AttributeError")
    ELSE LET p1 == g.p1[1]
             p2 == g.p2[1]
             dlon == RSub(p2.lon, p1.lon)
             dlat == RSub(p2.lat, p1.lat)
         IN  IF dlon[1] = 0 \/ dlat[1] = 0 THEN Raise("ZeroDivisionError")
             ELSE LET px == RAdd(p1.px, RDiv(RMul(RSub(lon, p1.lon),
                                                  RSub(p2.px, p1.px)), dlon))
                      py == RAdd(p1.py, RDiv(RMul(RSub(lat, p1.lat),
                                                  RSub(p2.py, p1.py)), dlat))
                  IN  Return(<<px, py>>)

\* ll_to_px without the is_ready guard
ll_to_px_unguarded(g, lat, lon) == ll_to_px_body(g, lat, lon)

ll_to_px(g, lat, lon) ==
    IF ~is_ready(g) THEN Raise("RuntimeError") ELSE ll_to_px_body(g, lat, lon)

DraggablePoint(x, y, idx) == [idx |-> idx, x_px |-> x, y_px |-> y]

\* update_selected_readout: what lat_box and lon_box show, s being sel[0]
update_selected_readout(e, s, g) ==
    IF s = NoItem THEN [kind |-> "empty", ll |-> <<>>]
    ELSE IF is_ready(g)
    THEN LET r == px_to_ll(g, e[s].x_px, e[s].y_px)
         IN  IF r.err = "none" THEN [kind |-> "coords", ll |-> r.val]
             ELSE [kind |-> "dash", ll |-> <<>>]
    ELSE [kind |-> "need_cal", ll |-> <<>>]

(* Inputs of the image editor *)
ImageSizes == { <<800, 600>> }
\* a click of the calibration pick with the answers to the two prompts;
\* BadText is a dismissed dialog or a text float() rejects
CalA == [px |-> 100, py |-> 100, lat |-> Num(10), lon |-> Num(5)]
CalB == [px |-> 300, py |-> 200, lat |-> Num(20), lon |-> Num(7)]
PickInputs ==
    { CalA, CalB,
      [px |-> 100, py |-> 200, lat |-> Num(20), lon |-> Num(7)],
      [px |-> 300, py |-> 100, lat |-> Num(20), lon |-> Num(7)],
      [px |-> 300, py |-> 200, lat |-> Num(10), lon |-> Num(7)],
      [px |-> 300, py |-> 200, lat |-> Num(20), lon |-> Num(5)],
      [px |-> 300, py |-> 200, lat |-> BadText, lon |-> Num(7)],
      [px |-> 300, py |-> 200, lat |-> Num(20), lon |-> BadText] }
ImgDragInputs == { <<R(120), R(130)>> }
\* arguments of direct GeoMapper calls
ConvInputs == { <<R(200), R(150)>>, <<R(10), R(5)>> }
\* waypoint files: cal is <<>> or <<p1, p2>>; a waypoint record has an id and
\* either pixel coordinates or only lat / lon
WpFileReady ==
    [cal |-> <<CalPoint(100, 100, 10, 5), CalPoint(300, 200, 20, 7)>>,
     wps |-> << [id |-> 3, has_px |-> FALSE, px |-> 0, py |-> 0, lat |-> 15, lon |-> 6] >>]
WpFileSameLat ==
    [cal |-> <<CalPoint(100, 100, 10, 5), CalPoint(300, 200, 10, 7)>>,
     wps |-> << [id |-> 5, has_px |-> FALSE, px |-> 0, py |-> 0, lat |-> 15, lon |-> 6],
                [id |-> 2, has_px |-> TRUE, px |-> 120, py |-> 130, lat |-> 0, lon |-> 0] >>]
WpFileSamePx ==
    [cal |-> <<CalPoint(100, 100, 10, 5), CalPoint(100, 200, 20, 7)>>,
     wps |-> << >>]
WpFileNoCal ==
    [cal |-> << >>,
     wps |-> << [id |-> 9, has_px |-> TRUE, px |-> 50, py |-> 60, lat |-> 0, lon |-> 0],
                [id |-> 4, has_px |-> TRUE, px |-> 120, py |-> 130, lat |-> 0, lon |-> 0] >>]
WpFiles == { WpFileReady, WpFileSameLat, WpFileSamePx, WpFileNoCal }

ImgFrame ==
    /\ UNCHANGED <<app, missions, snap, add_mode, origin, wpdata, crashed>>

\* add_waypoint_center on the state (e, sc, pts, selS) with image size img
ImgAdd(e, sc, pts, selS, img, u) ==
    [ent |-> e @@ (u :> DraggablePoint(Rat(img[1], 2), Rat(img[2], 2), Len(pts))),
     scene |-> sc \cup {u},
     points |-> Append(pts, u),
     selected |-> selS \cup {u}]

\* a variant that does not replace the GeoMapper
ImgLoadOk_keeps_calibration(img) ==
    LET a == ImgAdd(NoEnt, {}, <<>>, {}, img, nextUid)
    IN  /\ nextUid <= MaxCreated
        /\ ent' = a.ent
        /\ scene' = a.scene
        /\ waypoints' = a.points
        /\ selected' = a.selected
        /\ sel' = nextUid
        /\ geomap' = geomap
        /\ cal' = [cal EXCEPT !.image = img, !.status = "loaded",
                              !.readout = update_selected_readout(a.ent, nextUid, geomap)]
        /\ removed' = removed \cup scene
        /\ nextUid' = nextUid + 1
        /\ last' = Op("load_image", nextUid, img)

\* load_image_from_path with a readable image of size img
ImgLoadOk(img) ==
    LET a == ImgAdd(NoEnt, {}, <<>>, {}, img, nextUid)
    IN  /\ nextUid <= MaxCreated
        /\ ent' = a.ent
        /\ scene' = a.scene
        /\ waypoints' = a.points
        /\ selected' = a.selected
        /\ sel' = nextUid
        /\ geomap' = NoCal
        /\ cal' = [cal EXCEPT !.image = img, !.status = "loaded",
                              !.readout = update_selected_readout(a.ent, nextUid, NoCal)]
        /\ removed' = removed \cup scene
        /\ nextUid' = nextUid + 1
        /\ last' = Op("load_image", nextUid, img)

load_image_dialog ==
    /\ Run("image")
    /\ \/ \E img \in ImageSizes : ImgLoadOk(img)
       \/ /\ cal' = [cal EXCEPT !.status = "load_failed"]
          /\ last' = Op("load_image_failed", NoItem, <<0, 0>>)
          /\ UNCHANGED <<ent, scene, waypoints, selected, sel, geomap, removed,
                         nextUid>>
    /\ UNCHANGED conv
    /\ ImgFrame

set_cal_point ==
    /\ Run("image")
    /\ \E which \in {1, 2} :
          /\ cal' = IF cal.image = <<>> THEN cal
                    ELSE [cal EXCEPT !.mode = which, !.status = "pick"]
          /\ last' = Op("set_cal_point", NoItem, <<which, 0>>)
    /\ UNCHANGED <<ent, scene, waypoints, selected, sel, geomap, conv, removed,
                   nextUid>>
    /\ ImgFrame

\* eventFilter with a pick pending: pick_calibration_pixel, then the mode is
\* cleared
\* a variant of eventFilter that stays armed when the prompt was dismissed
disarm_unless_canceled(mode, ok) == IF ok THEN 0 ELSE mode

\* eventFilter, after pick_calibration_pixel returned: _cal_pick_mode = None,
\* whether the prompts were answered (ok) or not
disarm(mode, ok) == 0

\* eventFilter on a left press while a pick mode is armed, with
\* pick_calibration_pixel
pick_calibration_pixel ==
    /\ Run("image")
    /\ cal.mode \in {1, 2}
    /\ \E c \in PickInputs :
          IF ~IsNum(c.lat) \/ ~IsNum(c.lon)
          THEN /\ geomap' = geomap
               /\ cal' = [cal EXCEPT !.mode = disarm(cal.mode, FALSE),
                                     !.status = "canceled"]
               /\ last' = Op("pick_canceled", NoItem, <<cal.mode, 0>>)
          ELSE LET cp == CalPoint(c.px, c.py, Val(c.lat), Val(c.lon))
                   g  == IF cal.mode = 1 THEN [geomap EXCEPT !.p1 = <<cp>>]
                         ELSE [geomap EXCEPT !.p2 = <<cp>>]
                   both == g.p1 # <<>> /\ g.p2 # <<>>
               IN  /\ geomap' = g
                   /\ cal' = [cal EXCEPT
                                !.mode = disarm(cal.mode, TRUE),
                                !.status = IF ~both
                                           THEN (IF cal.mode = 1 THEN "p1_set" ELSE "p2_set")
                                           ELSE IF is_ready(g) THEN "calibrated"
                                           ELSE "invalid",
                                !.readout = IF both /\ is_ready(g)
                                            THEN update_selected_readout(ent, sel, g)
                                            ELSE cal.readout]
                   /\ last' = Op("pick", NoItem, <<cal.mode, 0>>)
    /\ UNCHANGED <<ent, scene, waypoints, selected, sel, conv, removed, nextUid>>
    /\ ImgFrame

img_add_waypoint_center ==
    /\ Run("image")
    /\ IF cal.image = <<>>
       THEN /\ last' = Op("add_no_image", NoItem, <<0, 0>>)
            /\ UNCHANGED <<ent, scene, waypoints, selected, sel, cal, nextUid>>
       ELSE LET a == ImgAdd(ent, scene, waypoints, selected, cal.image, nextUid)
            IN  /\ nextUid <= MaxCreated
                /\ ent' = a.ent
                /\ scene' = a.scene
                /\ waypoints' = a.points
                /\ selected' = a.selected
                /\ sel' \in a.selected
                /\ cal' = [cal EXCEPT !.readout = update_selected_readout(a.ent, sel', geomap)]
                /\ nextUid' = nextUid + 1
                /\ last' = Op("add", nextUid, cal.image)
    /\ UNCHANGED <<geomap, conv, removed>>
    /\ ImgFrame

\* a press on a point: it becomes the only selected item, and
\* selectionChanged runs update_selected_readout
ImgClickItem ==
    /\ Run("image")
    /\ cal.mode = 0
    /\ \E u \in scene :
          /\ selected # {u}
          /\ selected' = {u}
          /\ sel' = u
          /\ cal' = [cal EXCEPT !.readout = update_selected_readout(ent, u, geomap)]
          /\ last' = Op("click", u, <<0, 0>>)
    /\ UNCHANGED <<ent, scene, waypoints, geomap, conv, removed, nextUid>>
    /\ ImgFrame

\* a press on point g and a mouse move to t: every selected point follows,
\* each move runs update_selected_readout
ImgDragItem ==
    /\ Run("image")
    /\ cal.mode = 0
    /\ \E g \in scene, t \in ImgDragInputs :
          LET selN == IF g \in selected THEN selected ELSE {g}
              sN   == IF g \in selected THEN sel ELSE g
              dx   == RSub(t[1], ent[g].x_px)
              dy   == RSub(t[2], ent[g].y_px)
              e2   == [u \in DOMAIN ent |->
                          IF u \in selN
                          THEN [ent[u] EXCEPT !.x_px = RAdd(ent[u].x_px, dx),
                                              !.y_px = RAdd(ent[u].y_px, dy)]
                          ELSE ent[u]]
          IN  /\ e2 # ent
              /\ selected' = selN
              /\ sel' = sN
              /\ ent' = e2
              /\ cal' = [cal EXCEPT !.readout = update_selected_readout(e2, sN, geomap)]
              /\ last' = Op("drag", g, t)
    /\ UNCHANGED <<scene, waypoints, geomap, conv, removed, nextUid>>
    /\ ImgFrame

\* the points a waypoint file yields: records without pixel coordinates are
\* placed by ll_to_px, and skipped while the mapper is not ready
\* err is the exception that leaves the loop, "none" when there is none
RECURSIVE LoadPoints(_, _, _, _)
LoadPoints(recs, g, e, pts) ==
    IF Len(recs) = 0 THEN [ent |-> e, points |-> pts, err |-> "none"]
    ELSE LET wp == recs[1]
             rest == SubSeq(recs, 2, Len(recs))
             u == nextUid + Len(pts)
         IN  IF wp.has_px
             THEN LoadPoints(rest, g,
                             e @@ (u :> DraggablePoint(R(wp.px), R(wp.py), wp.id)),
                             Append(pts, u))
             ELSE IF ~is_ready(g) THEN LoadPoints(rest, g, e, pts)
             ELSE LET r == ll_to_px(g, R(wp.lat), R(wp.lon))
                  IN  IF r.err # "none"
                      THEN [ent |-> e, points |-> pts, err |-> r.err]
                      ELSE LoadPoints(rest, g,
                                      e @@ (u :> DraggablePoint(r.val[1], r.val[2], wp.id)),
                                      Append(pts, u))

\* "Re-index sequentially": p.idx = i for i, p in enumerate(self.points)
Reindex(e, pts) ==
    [u \in DOMAIN e |->
        [e[u] EXCEPT !.idx = (CHOOSE i \in 1..Len(pts) : pts[i] = u) - 1]]

load_waypoints ==
    /\ Run("image")
    /\ \E f \in WpFiles :
          LET g == IF f.cal = <<>> THEN geomap
                   ELSE set_points(geomap, f.cal[1], f.cal[2])
              l == LoadPoints(f.wps, g, NoEnt, <<>>)
              e == Reindex(l.ent, l.points)
              first == IF Len(l.points) = 0 THEN NoItem ELSE l.points[1]
          IN  /\ nextUid + Len(l.points) - 1 <= MaxCreated
              /\ IF l.err = "none"
                 THEN /\ geomap' = g
                      /\ ent' = e
                      /\ scene' = DOMAIN e
                      /\ waypoints' = l.points
                      /\ selected' = IF first = NoItem THEN {} ELSE {first}
                      /\ sel' = first
                      /\ cal' = [cal EXCEPT !.status = "loaded_wp",
                                            !.readout = update_selected_readout(e, first, g)]
                      /\ removed' = removed \cup scene
                      /\ nextUid' = nextUid + Len(l.points)
                      /\ crashed' = FALSE
                      /\ last' = Op("load_wp", first,
                                  <<Len(f.wps), IF f.cal = <<>> THEN 0 ELSE 1>>)
                 \* the exception leaves the slot, which aborts the process
                 ELSE /\ crashed' = TRUE
                      /\ last' = Op("load_wp_abort", NoItem, <<0, 0>>)
                      /\ UNCHANGED <<geomap, ent, scene, waypoints, selected, sel,
                                     cal, removed, nextUid>>
    /\ UNCHANGED <<conv, app, missions, snap, add_mode, origin, wpdata>>

\* one entry of the "waypoints" list of save_waypoints
SavedPoint(e, u, g) ==
    [id |-> e[u].idx, ll |-> px_to_ll(g, e[u].x_px, e[u].y_px).val,
     px |-> e[u].x_px, py |-> e[u].y_px]

\* save_waypoints: refused while the mapper is not ready; otherwise the file
\* dialog gives a path or is dismissed
save_waypoints ==
    /\ RunSave("image")
    /\ IF ~is_ready(geomap)
       THEN /\ written' = NoFile
            /\ cal' = cal
            /\ last' = Op("save_not_ready", NoItem, <<0, 0>>)
       ELSE \E path \in BOOLEAN :
              IF ~path
              THEN /\ written' = NoFile
                   /\ cal' = cal
                   /\ last' = Op("save_canceled", NoItem, <<0, 0>>)
              ELSE /\ written' =
                        << [calibration |-> geomap,
                            waypoints |->
                                [i \in 1..Len(waypoints) |->
                                    SavedPoint(ent, waypoints[i], geomap)]] >>
                   /\ cal' = [cal EXCEPT !.status = "saved"]
                   /\ last' = Op("save", NoItem, <<Len(waypoints), 0>>)
    /\ UNCHANGED <<ent, scene, waypoints, selected, sel, geomap, conv, removed,
                   nextUid>>
    /\ ImgFrame

\* direct calls of the GeoMapper methods
CallGeoMapper ==
    /\ Run("image")
    /\ \E a \in ConvInputs :
          \/ /\ conv' = [call |-> "px_to_ll", result |-> px_to_ll(geomap, a[1], a[2])]
             /\ last' = Op("px_to_ll", NoItem, a)
          \/ /\ conv' = [call |-> "ll_to_px", result |-> ll_to_px(geomap, a[1], a[2])]
             /\ last' = Op("ll_to_px", NoItem, a)
    /\ UNCHANGED <<ent, scene, waypoints, selected, sel, geomap, cal, removed,
                   nextUid>>
    /\ ImgFrame

CallIsReady ==
    /\ Run("image")
    /\ conv' = [call |-> "is_ready", result |-> is_ready(geomap)]
    /\ last' = Op("is_ready", NoItem, <<0, 0>>)
    /\ UNCHANGED <<ent, scene, waypoints, selected, sel, geomap, cal, removed,
                   nextUid>>
    /\ ImgFrame

\* MainWindow.__init__ ends with load_image_from_path(DEFAULT_IMAGE_PATH),
\* which finds the image or does not
InitImage ==
    /\ app = "image"
    /\ missions = <<>>
    /\ snap = FALSE
    /\ add_mode = "waypoint"
    /\ origin = <<BadText, BadText>>
    /\ geomap = NoCal
    /\ conv = [call |-> "none", result |-> "none"]
    /\ wpdata = <<>>
    /\ crashed = FALSE
    /\ removed = {}
    /\ nops = 0
    /\ written = NoFile
    /\ \/ /\ ent = NoEnt /\ scene = {} /\ selected = {} /\ sel = NoItem
          /\ waypoints = <<>>
          /\ cal = [mode |-> 0, image |-> <<>>, status |-> "load_failed",
                    readout |-> [kind |-> "empty", ll |-> <<>>]]
          /\ nextUid = 1
          /\ last = Op("init", NoItem, <<0, 0>>)
       \/ \E img \in ImageSizes :
             LET a == ImgAdd(NoEnt, {}, <<>>, {}, img, 1)
             IN  /\ ent = a.ent /\ scene = a.scene /\ selected = a.selected
                 /\ sel = 1
                 /\ waypoints = a.points
                 /\ cal = [mode |-> 0, image |-> img, status |-> "loaded",
                           readout |-> update_selected_readout(a.ent, 1, NoCal)]
                 /\ nextUid = 2
                 /\ last = Op("load_image", 1, img)

NextImage ==
    \/ load_image_dialog
    \/ set_cal_point
    \/ pick_calibration_pixel
    \/ img_add_waypoint_center
    \/ ImgClickItem
    \/ ImgDragItem
    \/ load_waypoints
    \/ save_waypoints
    \/ CallGeoMapper
    \/ CallIsReady

SpecImage == InitImage /\ [][NextImage]_vars

-----------------------------------------------------------------------------
(* src/map_4.py: pre-water surveyor.                                       *)
(* A graphic is [wp_id, x_px, y_px]; a waypoints_data entry is             *)
(* [lat, lon, x, y].  Latitudes and longitudes are in angle units.         *)

WaypointGraphic(wp_id, x, y) == [wp_id |-> wp_id, x_px |-> x, y_px |-> y]

latlon_to_local_xy(o_lat, o_lon, t_lat, t_lon) ==
    LET c == CosFrac(o_lat)
    IN  <<((t_lon - o_lon) * c[1]) \div c[2], t_lat - o_lat>>

local_xy_to_latlon(o_lat, o_lon, x_m, y_m) ==
    LET c == CosFrac(o_lat)
    IN  <<o_lat + y_m, o_lon + (x_m * c[2]) \div c[1]>>

\* a variant that leaves the y axis pointing down
m_to_px_unflipped(x, y) == <<(W_PX \div 2) + x, (H_PX \div 2) + y>>

m_to_px(x, y) == <<(W_PX \div 2) + x, (H_PX \div 2) - y>>

px_to_m(x, y) == <<x - (W_PX \div 2), (H_PX \div 2) - y>>

\* a variant that reads an origin field that is not a number as 0
update_waypoint_coords_default_origin(data, wp_id, p) ==
    LET m  == px_to_m(p[1], p[2])
        o1 == IF IsNum(origin[1]) THEN Val(origin[1]) ELSE 0
        o2 == IF IsNum(origin[2]) THEN Val(origin[2]) ELSE 0
        ll == local_xy_to_latlon(o1, o2, m[1], m[2])
    IN  Return([data EXCEPT ![wp_id + 1] = [lat |-> ll[1], lon |-> ll[2],
                                            x |-> m[1], y |-> m[2]]])

\* float() of the origin fields comes first and raises ValueError before
\* anything is stored; the result is the new waypoints_data
update_waypoint_coords(data, wp_id, p) ==
    IF ~(IsNum(origin[1]) /\ IsNum(origin[2]))
    THEN Raise("ValueError")
    ELSE LET m  == px_to_m(p[1], p[2])
             ll == local_xy_to_latlon(Val(origin[1]), Val(origin[2]), m[1], m[2])
         IN  Return([data EXCEPT ![wp_id + 1] = [lat |-> ll[1], lon |-> ll[2],
                                                 x |-> m[1], y |-> m[2]]])

(* Inputs of the surveyor *)
\* my_lat, my_lon (angle units), bearing (degrees), dist (length units)
ObsInputs ==
    { [lat |-> Num(Deg60), lon |-> Num(40), brg |-> Num(0), dist |-> Num(80)],
      [lat |-> Num(Deg60), lon |-> Num(0), brg |-> Num(180), dist |-> Num(0)],
      [lat |-> Num(Deg60), lon |-> BadText, brg |-> Num(0), dist |-> Num(80)] }
SurvDragInputs == { <<420, 380>> }

SurvFrame ==
    /\ UNCHANGED <<app, selected, sel, waypoints, missions, snap, add_mode,
                   geomap, cal, conv>>

\* typing into origin_lat / origin_lon
SurvEditOrigin ==
    /\ Run("surveyor")
    /\ \E o \in OriginInputs :
          /\ origin' = o
          /\ last' = Op("origin", NoItem, <<0, 0>>)
    /\ UNCHANGED <<ent, scene, wpdata, crashed, removed, nextUid>>
    /\ SurvFrame

\* my_lat / my_lon hold what the surveyor typed
set_origin_to_me ==
    /\ Run("surveyor")
    /\ \E t \in ObsInputs :
          /\ origin' = <<t.lat, t.lon>>
          /\ last' = Op("origin_to_me", NoItem, <<0, 0>>)
    /\ UNCHANGED <<ent, scene, wpdata, crashed, removed, nextUid>>
    /\ SurvFrame

add_waypoint ==
    /\ Run("surveyor")
    /\ \E t \in ObsInputs :
          LET o_lat  == float(origin[1])
              o_lon  == float(origin[2])
              my_lat == float(t.lat)
              my_lon == float(t.lon)
              brg    == float(t.brg)
              dist   == float(t.dist)
              asked  == Asked("add", <<origin[1], origin[2], t.lat, t.lon,
                                       t.brg, t.dist>>)
          IN  IF \A f \in {o_lat, o_lon, my_lat, my_lon, brg, dist} :
                     f.err = "none"
              THEN LET tl == forward_geodesic(my_lat.val, my_lon.val, brg.val,
                                              dist.val)
                       xy == latlon_to_local_xy(o_lat.val, o_lon.val,
                                                tl[1], tl[2])
                       p  == m_to_px(xy[1], xy[2])
                       u  == nextUid
                   IN  /\ nextUid <= MaxCreated
                       /\ ent' = ent @@ (u :> WaypointGraphic(Len(wpdata),
                                                              p[1], p[2]))
                       /\ scene' = scene \cup {u}
                       /\ wpdata' = Append(wpdata, [lat |-> tl[1], lon |-> tl[2],
                                                    x |-> xy[1], y |-> xy[2]])
                       /\ nextUid' = u + 1
                       /\ last' = Op(asked, u, p)
              ELSE /\ last' = Op(asked, NoItem, <<0, 0>>)
                   /\ UNCHANGED <<ent, scene, wpdata, nextUid>>
    /\ UNCHANGED <<origin, crashed, removed>>
    /\ SurvFrame

\* a drag of graphic g to t: itemChange calls update_waypoint_coords; a
\* ValueError it raises escapes the Qt virtual, which aborts the process
SurvDragItem ==
    /\ Run("surveyor")
    /\ \E g \in scene, t \in SurvDragInputs :
          /\ t # pos(ent, g)
          /\ LET r == update_waypoint_coords(wpdata, ent[g].wp_id, t)
             IN  IF r.err = "none"
                 THEN /\ ent' = [ent EXCEPT ![g].x_px = t[1], ![g].y_px = t[2]]
                      /\ wpdata' = r.val
                      /\ crashed' = FALSE
                      /\ last' = Op("drag", g, t)
                 ELSE /\ crashed' = TRUE
                      /\ last' = Op("drag_abort", g, t)
                      /\ UNCHANGED <<ent, wpdata>>
    /\ UNCHANGED <<scene, origin, removed, nextUid>>
    /\ SurvFrame

\* clear_all: waypoints_data = [], then draw_grid, whose scene.clear() takes
\* every graphic out
surv_clear_all ==
    /\ Run("surveyor")
    /\ wpdata' = <<>>
    /\ scene' = {}
    /\ ent' = NoEnt
    /\ removed' = removed \cup scene
    /\ last' = Op("clear", NoItem, <<0, 0>>)
    /\ UNCHANGED <<origin, crashed, nextUid>>
    /\ SurvFrame

\* save_json: the origin block is the text of the two origin fields as it
\* stands, the points are waypoints_data as stored
surv_save_json ==
    /\ RunSave("surveyor")
    /\ \E path \in BOOLEAN :
          IF ~path
          THEN /\ written' = NoFile
               /\ last' = Op("save_canceled", NoItem, <<0, 0>>)
          ELSE /\ written' = << [origin |-> origin, points |-> wpdata] >>
               /\ last' = Op("save", NoItem, <<Len(wpdata), 0>>)
    /\ UNCHANGED <<ent, scene, origin, wpdata, crashed, removed, nextUid>>
    /\ SurvFrame

InitSurveyor == app = "surveyor" /\ InitCommon

NextSurveyor ==
    \/ SurvEditOrigin
    \/ set_origin_to_me
    \/ add_waypoint
    \/ SurvDragItem
    \/ surv_save_json
    \/ surv_clear_all

SpecSurveyor == InitSurveyor /\ [][NextSurveyor]_vars

-----------------------------------------------------------------------------
(* Any one of the four editors *)

Init == InitGrid \/ InitPlanner \/ InitImage \/ InitSurveyor

Next == NextGrid \/ NextPlanner \/ NextImage \/ NextSurveyor

Spec == Init /\ [][Next]_vars

-----------------------------------------------------------------------------
(* The pure helpers applied to arguments of their own.  conv holds the call:
   "input" with the arguments before it is made, the helper's name and its
   result after. *)

\* coordinates within MaxCoord units of 0, cells of 1..MaxCell units and CELL
MaxCoord == 30
MaxCell == 4
SnapArgs ==
    { <<"snap", v, c>> : v \in -MaxCoord..MaxCoord, c \in (1..MaxCell) \cup {CELL} }
SnapXYArgs ==
    { <<"snap_xy", x, y>> : x \in {-MaxCoord, -CELL \div 2, 0, 3 * (CELL \div 2)},
                           y \in {-MaxCoord, -1, CELL \div 2, CELL + 1} }
\* the two implementations that take the origin as an argument
Impls == {"map_2", "map_4"}
Deg90 == 90 * UnitsPerDeg
\* local_to_geo of (x, y) about an origin, the poles included
ToGeoArgs ==
    { <<"to_geo", i, o_lat, o_lon, x, y>> :
        i \in Impls, o_lat \in {0, Deg60, Deg90, -Deg90}, o_lon \in {0, 40},
        x \in {-3, 0, 5}, y \in {0, 7} }
\* geo_to_local and back of (lat, lon) about an origin off the poles; the
\* longitudes are those whose east offset is a whole number of units
RoundTripArgs ==
    { <<"round_trip", i, o_lat, o_lon, lat, lon>> :
        i \in Impls, o_lat \in {0, Deg60, -Deg60}, o_lon \in {0, 40},
        lat \in {-Deg60 - 20, 0, Deg60 + 100}, lon \in {-200, 0, 46, 1000} }
\* ready calibrations: one with both axes increasing, one with the longitude
\* falling as the pixel column grows, one with fractional coordinates
ReadyCals ==
    { [p1 |-> <<CalPoint(100, 100, 10, 5)>>, p2 |-> <<CalPoint(300, 200, 20, 7)>>],
      [p1 |-> <<CalPoint(300, 100, 10, 5)>>, p2 |-> <<CalPoint(100, 200, 20, 7)>>],
      [p1 |-> <<[px |-> Rat(1, 2), py |-> R(0), lat |-> Rat(-7, 3), lon |-> R(0)]>>,
       p2 |-> <<[px |-> R(3), py |-> R(7), lat |-> R(4), lon |-> Rat(1, 5)]>>] }
\* pixel to lat / lon and back, for the pixels of the calibration points and
\* pixels inside and outside their rectangle
PxRoundTripArgs ==
    { <<"px_round_trip", g, px, py>> :
        g \in ReadyCals,
        px \in {R(-20), R(0), R(100), Rat(401, 2), R(300), R(3), Rat(1, 2)},
        py \in {R(-1), R(0), R(100), R(200), Rat(605, 4), R(7)} }
\* forward geodesic from a start point on a bearing (degrees): over no
\* distance on any bearing, and over a distance due north and due south;
\* one start latitude lies beyond the pole
GeodesicArgs ==
    { <<"geodesic", lat, lon, brg, 0>> :
        lat \in {-Deg90, -Deg60, 0, 123, Deg60, Deg90, Deg90 + 10 * UnitsPerDeg},
        lon \in {-200, 0, 40, 2 * Deg90},
        brg \in {0, 45, 90, 180, 270, 359} }
    \cup { <<"geodesic", lat, 40, brg, 80>> : lat \in {0, Deg60}, brg \in {0, 180} }
PureArgs ==
    SnapArgs \cup SnapXYArgs \cup ToGeoArgs \cup RoundTripArgs \cup PxRoundTripArgs
        \cup GeodesicArgs

\* local_to_geo / geo_to_local of implementation i
local_to_geo(i, o_lat, o_lon, x, y) ==
    IF i = "map_2" THEN meters_to_latlon(o_lat, o_lon, x, y)
    ELSE local_xy_to_latlon(o_lat, o_lon, x, y)
geo_to_local(i, o_lat, o_lon, lat, lon) ==
    IF i = "map_2" THEN latlon_to_meters(o_lat, o_lon, lat, lon)
    ELSE latlon_to_local_xy(o_lat, o_lon, lat, lon)

PureFrame ==
    UNCHANGED <<app, ent, scene, selected, sel, waypoints, missions, snap,
                add_mode, origin, geomap, cal, wpdata, crashed, removed,
                nextUid, nops, last, written>>

Pending(name) == conv.call = "input" /\ conv.arg[1] = name

ApplySnap ==
    /\ app = "pure"
    /\ Pending("snap")
    /\ conv' = [conv EXCEPT !.call = "snap",
                            !.result = snap_cell(conv.arg[2], conv.arg[3])]
    /\ PureFrame

ApplySnapXY ==
    /\ app = "pure"
    /\ Pending("snap_xy")
    /\ conv' = [conv EXCEPT !.call = "snap_xy",
                            !.result = snap_xy(<<conv.arg[2], conv.arg[3]>>)]
    /\ PureFrame

ApplyLocalToGeo ==
    /\ app = "pure"
    /\ Pending("to_geo")
    /\ LET a == conv.arg
       IN  conv' = [conv EXCEPT !.call = "to_geo",
                                !.result = local_to_geo(a[2], a[3], a[4], a[5], a[6])]
    /\ PureFrame

ApplyRoundTrip ==
    /\ app = "pure"
    /\ Pending("round_trip")
    /\ LET a  == conv.arg
           xy == geo_to_local(a[2], a[3], a[4], a[5], a[6])
       IN  conv' = [conv EXCEPT
                       !.call = "round_trip",
                       !.result = [local |-> xy,
                                   geo |-> local_to_geo(a[2], a[3], a[4],
                                                        xy[1], xy[2])]]
    /\ PureFrame

ApplyPxRoundTrip ==
    /\ app = "pure"
    /\ Pending("px_round_trip")
    /\ LET a  == conv.arg
           ll == px_to_ll(a[2], a[3], a[4])
       IN  conv' = [conv EXCEPT
                       !.call = "px_round_trip",
                       !.result = [ll |-> ll,
                                   px |-> IF ll.err = "none"
                                          THEN ll_to_px(a[2], ll.val[1], ll.val[2])
                                          ELSE ll]]
    /\ PureFrame

ApplyGeodesic ==
    /\ app = "pure"
    /\ Pending("geodesic")
    /\ LET a == conv.arg
       IN  conv' = [conv EXCEPT !.call = "geodesic",
                                !.result = forward_geodesic(a[2], a[3], a[4], a[5])]
    /\ PureFrame

InitPure ==
    /\ app = "pure"
    /\ ent = NoEnt
    /\ scene = {}
    /\ selected = {}
    /\ sel = NoItem
    /\ waypoints = <<>>
    /\ missions = <<>>
    /\ snap \in BOOLEAN
    /\ add_mode = "waypoint"
    /\ origin = <<BadText, BadText>>
    /\ geomap = [p1 |-> <<>>, p2 |-> <<>>]
    /\ cal = [mode |-> 0, image |-> <<>>, status |-> "tip", readout |-> [kind |-> "empty", ll |-> <<>>]]
    /\ conv \in { [call |-> "input", arg |-> a, result |-> <<>>] : a \in PureArgs }
    /\ wpdata = <<>>
    /\ crashed = FALSE
    /\ removed = {}
    /\ nextUid = 1
    /\ nops = 0
    /\ written = NoFile
    /\ last = Op("init", NoItem, <<0, 0>>)

NextPure ==
    \/ ApplySnap
    \/ ApplySnapXY
    \/ ApplyLocalToGeo
    \/ ApplyRoundTrip
    \/ ApplyPxRoundTrip
    \/ ApplyGeodesic

SpecPure == InitPure /\ [][NextPure]_vars

-----------------------------------------------------------------------------
(* Properties of the grid editor *)


\* the point of [-HALF_M, HALF_M] nearest to v
Nearest(v) == IF v > HALF_M THEN HALF_M ELSE IF v < -HALF_M THEN -HALF_M ELSE v

\* the multiple of the cell size nearest to v, the even multiple on a tie
Multiples == { k * CELL : k \in -(HALF_M \div CELL)..(HALF_M \div CELL) }
NearestCell(v) ==
    CHOOSE m \in Multiples :
        \A n \in Multiples :
            \/ Abs(v - m) < Abs(v - n)
            \/ Abs(v - m) = Abs(v - n) /\ (m = n \/ (m \div CELL) % 2 = 0)

\* the final position a request r is to end at
Placed(r) ==
    IF snap THEN <<NearestCell(Nearest(r[1])), NearestCell(Nearest(r[2]))>>
    ELSE <<Nearest(r[1]), Nearest(r[2])>>

Shown(e, u) == px_to_meters(pos(e, u))

\* C1: in every reachable state of the grid editor, after create and after
\* every drag, X/Y edit, lat/lon edit and offset edit, the final position of
\* every item as shown on the scene equals base + offset, the position that
\* is exported.
OffsetInvariant ==
    app = "grid" => \A u \in DOMAIN ent : Shown(ent, u) = final_from_item(ent, u)

\* C2: a final-position edit (X/Y edit, lat/lon edit, drag of the item that
\* set_item_final is run on) whose requested position lies outside the
\* bounds on an axis leaves the final position on the bound of that side on
\* that axis, and never outside the bounds, with snapping on or off.
SetFinalRequest ==
    IF last.op = "drag" THEN px_to_meters(last.req) ELSE last.req

SetFinalClamps ==
    (app = "grid" /\ last.op \in {"xy", "latlon", "drag"} /\ last.u = sel) =>
        LET f == final_from_item(ent, last.u)
            r == SetFinalRequest
        IN  /\ Shown(ent, last.u) = f
            /\ Abs(f[1]) <= HALF_M /\ Abs(f[2]) <= HALF_M
            /\ r[1] > HALF_M => f[1] = HALF_M
            /\ r[1] < -HALF_M => f[1] = -HALF_M
            /\ r[2] > HALF_M => f[2] = HALF_M
            /\ r[2] < -HALF_M => f[2] = -HALF_M

OutOfBounds(r) == Abs(r[1]) > HALF_M \/ Abs(r[2]) > HALF_M

SetFinalClampsWitness ==
    /\ app = "grid" /\ last.op = "xy" /\ last.u = sel /\ snap
    /\ last.req[1] < -HALF_M
    /\ final_from_item(ent, sel)[1] = -HALF_M
    /\ ent[sel].off_x # 0

\* C3: a call of set_item_final (X/Y edit, lat/lon edit, drag handler) leaves
\* the offset of the item it is run on unchanged and sets its base to the
\* clamped/snapped final position minus that offset.
SetFinalTarget == IF last'.op = "drag" THEN sel' ELSE last'.u

SetFinalKeepsOffset ==
    [][ (app = "grid" /\ last'.op \in {"xy", "latlon", "drag"}) =>
          LET u == SetFinalTarget
              f == IF last'.op = "drag" THEN Shown(ent', u) ELSE Placed(last'.req)
          IN  /\ ent'[u].off_x = ent[u].off_x
              /\ ent'[u].off_y = ent[u].off_y
              /\ ent'[u].base_x = f[1] - ent[u].off_x
              /\ ent'[u].base_y = f[2] - ent[u].off_y ]_vars

SetFinalKeepsOffsetWitness ==
    /\ app = "grid" /\ last.op = "xy" /\ OutOfBounds(last.req)
    /\ ent[last.u].off_x # 0
    /\ ent[last.u].base_x = Placed(last.req)[1] - ent[last.u].off_x
    /\ ent[last.u].base_x # last.req[1] - ent[last.u].off_x

KindList(k) == IF k = "waypoint" THEN waypoints ELSE missions

CreatePlaces ==
    (app = "grid" /\ last.op = "add") =>
        LET u == last.u
            f == Placed(last.req)
            l == KindList(ent[u].kind)
        IN  /\ ent[u].base_x = f[1] /\ ent[u].base_y = f[2]
            /\ ent[u].off_x = 0 /\ ent[u].off_y = 0
            /\ Shown(ent, u) = f
            /\ ent[u].id = Len(l)
            /\ l[Len(l)] = u

CreatePlacesWitness ==
    /\ app = "grid" /\ last.op = "add" /\ snap /\ OutOfBounds(last.req)
    /\ ent[last.u].kind = "mission" /\ ent[last.u].id = 2
    /\ ent[last.u].base_x = -HALF_M

-----------------------------------------------------------------------------
(* Properties of the registries *)

\* the display id of an item: item_id_1based (grid), the number of the label
\* (planner), idx (image)
IdOf(u) ==
    IF app = "grid" THEN ent[u].id
    ELSE IF app = "planner" THEN ent[u].label
    ELSE ent[u].idx

\* C7: in every reachable state of the grid editor, the planner and the image
\* editor, after any adds, removals and loads, the items of each list carry
\* the ids 1..n in list order, and each list is in the order of creation.
DenseIdsFromOne ==
    app \in {"grid", "planner", "image"} =>
        \A lst \in {waypoints, missions} :
            /\ \A i \in 1..Len(lst) : IdOf(lst[i]) = i
            /\ \A i, j \in 1..Len(lst) : i < j => lst[i] < lst[j]

\* every graphic of the surveyor stands for one entry of waypoints_data
Registered ==
    Members(waypoints) \cup Members(missions) \cup
        (IF app = "surveyor" THEN { u \in scene : ent[u].wp_id < Len(wpdata) }
         ELSE {})

\* C8: an item is placed when it is constructed and at no other time; it
\* stays placed until a delete, clear or load removes it; a removed item is
\* in no list, not on the scene, not selected and not among the live objects,
\* so no later handler reads or changes it, and it is never placed again.
RemovedIsTerminal ==
    /\ [](/\ removed \cap (DOMAIN ent \cup scene \cup selected \cup Registered) = {}
          /\ sel \notin removed
          /\ DOMAIN ent = scene
          /\ DOMAIN ent \cup removed = 1..(nextUid - 1))
    /\ [][ /\ removed \subseteq removed'
           /\ \A u \in DOMAIN ent' \ DOMAIN ent : u >= nextUid /\ u \notin removed
           /\ \A u \in DOMAIN ent \ DOMAIN ent' : u \in removed' ]_vars

RemovedIsTerminalWitness ==
    /\ app = "planner" /\ last.op = "add"
    /\ removed = {1} /\ scene = {2} /\ missions = <<2>>
    /\ ent[2].label = 1

-----------------------------------------------------------------------------
(* Properties of the calibration mapper *)

\* both calibration points are set and differ in each of px, py, lat, lon
Calibrated(g) ==
    /\ g.p1 # <<>>
    /\ g.p2 # <<>>
    /\ \A f \in {"px", "py", "lat", "lon"} : g.p1[1][f] # g.p2[1][f]

\* C9: is_ready() returns true exactly when both calibration points are set
\* and differ in each of pixel x, pixel y, lat and lon; the answer follows the
\* points as they are now: a call after any pick or load, the status after a
\* pick that leaves both points set, and the readout after a load of
\* waypoints all agree with the current points.
IsReadyIff ==
    app = "image" =>
        /\ last.op = "is_ready" => conv.result = Calibrated(geomap)
        /\ (last.op = "pick" /\ geomap.p1 # <<>> /\ geomap.p2 # <<>>) =>
              /\ cal.status \in {"calibrated", "invalid"}
              /\ cal.status = "calibrated" <=> Calibrated(geomap)
        /\ (last.op = "load_wp" /\ sel # NoItem) =>
              /\ cal.readout.kind \in {"coords", "need_cal"}
              /\ cal.readout.kind = "coords" <=> Calibrated(geomap)

IsReadyIffWitness ==
    /\ app = "image" /\ last.op = "pick"
    /\ cal.status = "invalid" /\ cal.readout.kind = "coords"
    /\ geomap.p1 # <<>> /\ geomap.p2 # <<>>
    /\ geomap.p1[1].lat = geomap.p2[1].lat
    /\ geomap.p1[1].px # geomap.p2[1].px

\* C10: a call of px_to_ll or ll_to_px while the mapper is not calibrated (a
\* point missing, or px, py, lat or lon equal between the points) raises the
\* not-calibrated RuntimeError and returns no coordinate; no conversion, in a
\* direct call or inside a handler, ends in a division by zero or any other
\* exception.
NotCalibratedRaises ==
    app = "image" =>
        /\ last.op \in {"px_to_ll", "ll_to_px"} =>
              /\ conv.result.err \in {"none", "RuntimeError"}
              /\ ~Calibrated(geomap) =>
                    /\ conv.result.err = "RuntimeError"
                    /\ conv.result.val = <<>>
              /\ Calibrated(geomap) =>
                    /\ conv.result.err = "none"
                    /\ Len(conv.result.val) = 2
        /\ cal.readout.kind # "dash"
        /\ ~crashed

NotCalibratedRaisesWitness ==
    /\ app = "image" /\ last.op = "ll_to_px"
    /\ geomap.p1 # <<>> /\ geomap.p2 # <<>>
    /\ geomap.p1[1].lat = geomap.p2[1].lat
    /\ geomap.p1[1].lon # geomap.p2[1].lon
    /\ conv.result = Raise("RuntimeError")

\* C11: a pick, or a load of a file with a calibration block, that leaves both
\* calibration points set but degenerate reports the invalid calibration in
\* that same operation.
DegenerateReported ==
    ( /\ app = "image"
      /\ last.op = "pick" \/ (last.op = "load_wp" /\ last.req[2] = 1)
      /\ geomap.p1 # <<>> /\ geomap.p2 # <<>>
      /\ ~Calibrated(geomap) )
        => cal.status = "invalid"

\* C12: a pick that would make a ready calibration degenerate is rejected:
\* P1 and P2 are what they were before it, and the calibration is still ready.
DegeneratePickRejected ==
    [][ ( /\ app = "image"
          /\ last'.op = "pick"
          /\ Calibrated(geomap)
          /\ ~Calibrated(geomap') )
            => geomap' = geomap ]_vars

\* C13: a conversion that needs the origin changes nothing when the origin is
\* unset or not a number: a lat / lon edit on the grid reports the missing
\* origin and leaves every entity as it was, and a waypoint drag in the
\* surveyor ends in an error and stores no new coordinates.
NoOriginBefore == ~(IsNum(origin[1]) /\ IsNum(origin[2]))
NoOriginChangesNothing ==
    [][ /\ ( /\ app = "grid"
             /\ last'.op \in {"latlon", "latlon_invalid", "latlon_no_origin"}
             /\ NoOriginBefore )
            => (last'.op = "latlon_no_origin" /\ ent' = ent)
        /\ ( /\ app = "surveyor"
             /\ last'.op \in {"drag", "drag_abort"}
             /\ NoOriginBefore )
            => (last'.op = "drag_abort" /\ crashed' /\ wpdata' = wpdata)
      ]_vars
\* a waypoint added under a valid origin is dragged after the origin field
\* was overwritten with text that is not a number
NoOriginChangesNothingWitness ==
    app = "surveyor" /\ last.op = "drag_abort" /\ Len(wpdata) > 0
\* a lat / lon edit of a selected grid entity with no valid origin
NoOriginEditWitness ==
    app = "grid" /\ last.op = "latlon_no_origin" /\ sel \in scene

InvalidAddWitness ==
    app = "surveyor" /\ last.op = "add_invalid" /\ Len(wpdata) > 0

\* the image editor's half of C15: every file save_waypoints writes carries a
\* ready calibration
SaveNeedsCalibration ==
    (app = "image" /\ written # NoFile) => Calibrated(written[1].calibration)

\* C15: a file is written only with a defined origin or a ready calibration:
\* save_waypoints writes nothing unless the calibration is ready, and a file
\* of save_json that holds entities has an origin block whose latitude and
\* longitude are numbers.
ExportNeedsOrigin ==
    /\ SaveNeedsCalibration
    /\ ( /\ app = "grid"
         /\ written # NoFile
         /\ Len(written[1].waypoints) + Len(written[1].mission_elements) > 0 )
        => (IsNum(written[1].origin[1]) /\ IsNum(written[1].origin[2]))

\* C16: every record in a file the surveyor writes has the x, y that
\* latlon_to_local_xy gives for its lat, lon under the origin in that file
\* (stated for files whose origin block holds numbers).
SavedXYMatchOrigin ==
    ( /\ app = "surveyor"
      /\ written # NoFile
      /\ IsNum(written[1].origin[1]) /\ IsNum(written[1].origin[2]) ) =>
        \A i \in 1..Len(written[1].points) :
            LET o == written[1].origin
                r == written[1].points[i]
            IN  <<r.x, r.y>> = latlon_to_local_xy(Val(o[1]), Val(o[2]), r.lat, r.lon)

\* C17: snap is idempotent for every value and every cell size c > 0, its
\* result being a multiple of c nearest to the value; snap_xy with snapping
\* disabled returns its argument, and with snapping enabled is idempotent.
SnapIdempotent ==
    /\ (app = "pure" /\ conv.call = "snap") =>
          LET v == conv.arg[2]
              c == conv.arg[3]
              r == conv.result
          IN  /\ snap_cell(r, c) = r
              /\ r % c = 0
              /\ 2 * Abs(r - v) <= c
    /\ (app = "pure" /\ conv.call = "snap_xy") =>
          IF snap THEN snap_xy(conv.result) = conv.result
                  ELSE conv.result = <<conv.arg[2], conv.arg[3]>>
\* a value half a cell above a multiple of the cell is moved by snap
SnapIdempotentWitness ==
    /\ app = "pure"
    /\ conv.call = "snap"
    /\ conv.arg[3] > 1
    /\ 2 * (conv.arg[2] % conv.arg[3]) = conv.arg[3]
    /\ conv.result # conv.arg[2]
\* snap_xy with snapping enabled moves a point, with snapping disabled it
\* returns a point that is off the cell grid
SnapXYEnabledWitness ==
    /\ app = "pure" /\ conv.call = "snap_xy" /\ snap
    /\ conv.result # <<conv.arg[2], conv.arg[3]>>
SnapXYDisabledWitness ==
    /\ app = "pure" /\ conv.call = "snap_xy" /\ ~snap
    /\ conv.result[1] % CELL # 0

\* C18: an item's start position is captured once, when it is created, and no
\* later operation (drag, nudge, mode switch, table refresh, delete of
\* another item) modifies it; right after creation the displacement is 0.
StartPosFixed ==
    [][ app = "planner" =>
          \A u \in DOMAIN ent' :
              IF u \in DOMAIN ent
              THEN /\ ent'[u].start_x = ent[u].start_x
                   /\ ent'[u].start_y = ent[u].start_y
              ELSE /\ <<ent'[u].start_x, ent'[u].start_y>> = pos(ent', u)
                   /\ get_displacement_m(ent', u) = 0
      ]_vars
\* an item that was moved away from where it was created, seen after a
\* switch of mode
StartPosFixedWitness ==
    /\ app = "planner"
    /\ last.op = "mode"
    /\ \E u \in scene : get_displacement_m(ent, u) > 0

\* C19: local_to_geo divides by nothing that is zero: about an origin at a
\* pole, where a degree of longitude has no length, every implementation
\* returns the origin longitude unchanged and the latitude as usual.
PoleKeepsLongitude ==
    (app = "pure" /\ conv.call = "to_geo" /\ Abs(conv.arg[3]) = Deg90) =>
        conv.result = <<conv.arg[3] + conv.arg[6], conv.arg[4]>>

\* C20: about an origin off the poles, local_to_geo of geo_to_local of a point
\* is that point (to less than one angle unit, which is 1.1e-6 degrees), in
\* map_2 and in map_4.
RoundTripRecovers ==
    (app = "pure" /\ conv.call = "round_trip") =>
        conv.result.geo = <<conv.arg[5], conv.arg[6]>>
\* a round trip about an origin at 60 degrees, where the east offset is half
\* the difference of longitude
RoundTripRecoversWitness ==
    /\ app = "pure"
    /\ conv.call = "round_trip"
    /\ Abs(conv.arg[3]) = Deg60
    /\ conv.arg[6] # conv.arg[4]
    /\ 2 * conv.result.local[1] = conv.arg[6] - conv.arg[4]
    /\ conv.result.local[2] # 0

PxCalPointWitness ==
    /\ app = "pure"
    /\ conv.call = "px_round_trip"
    /\ conv.arg[3] = conv.arg[2].p2[1].px
    /\ conv.arg[4] = conv.arg[2].p2[1].py

GeodesicMovesWitness ==
    /\ app = "pure"
    /\ conv.call = "geodesic"
    /\ conv.arg[5] > 0
    /\ conv.result[1] # conv.arg[2]

\* C23: after every successful image load, at startup or from the dialog, the
\* image editor holds exactly one waypoint, of index 0 and at the centre of
\* the scene, and a mapper with both calibration points unset; a failed load
\* leaves the waypoints and the calibration as they were.
LoadedImageState ==
    (app = "image" /\ last.op = "load_image") =>
        /\ Len(waypoints) = 1
        /\ scene = {waypoints[1]}
        /\ DOMAIN ent = {waypoints[1]}
        /\ ent[waypoints[1]] =
              DraggablePoint(Rat(cal.image[1], 2), Rat(cal.image[2], 2), 0)
        /\ geomap = [p1 |-> <<>>, p2 |-> <<>>]
        /\ ~Calibrated(geomap)
ImageLoadResets ==
    /\ []LoadedImageState
    /\ [][ (app = "image" /\ last'.op = "load_image_failed") =>
              (waypoints' = waypoints /\ ent' = ent /\ scene' = scene
                  /\ geomap' = geomap) ]_vars
\* a load from the dialog that replaced earlier waypoints
ImageLoadResetsWitness ==
    /\ app = "image"
    /\ last.op = "load_image"
    /\ nops > 0
    /\ removed # {}
\* a failed load over a ready calibration
FailedLoadWitness ==
    app = "image" /\ last.op = "load_image_failed" /\ Calibrated(geomap)

\* entity b, the i-th of its list after a load, is entity a as it was saved:
\* same name, final position and offset, base = final - offset, id i
SameEntity(a, b, i) ==
    /\ b.name = a.name
    /\ b.base_x + b.off_x = a.base_x + a.off_x
    /\ b.base_y + b.off_y = a.base_y + a.off_y
    /\ b.off_x = a.off_x /\ b.off_y = a.off_y
    /\ b.kind = a.kind
    /\ b.id = i
\* the step loads the file the step before saved, and every entity is back,
\* per kind and in the same order
Restored ==
    /\ Len(waypoints') = Len(waypoints)
    /\ Len(missions') = Len(missions)
    /\ \A i \in 1..Len(waypoints) :
          SameEntity(ent[waypoints[i]], ent'[waypoints'[i]], i)
    /\ \A i \in 1..Len(missions) :
          SameEntity(ent[missions[i]], ent'[missions'[i]], i)
\* every load: ids are 1..n per kind, and no more entities than records
LoadRenumbers ==
    /\ \A i \in 1..Len(waypoints') : ent'[waypoints'[i]].id = i
    /\ \A i \in 1..Len(missions') : ent'[missions'[i]].id = i
    /\ Len(waypoints') + Len(missions') <= last'.req[2]
Reload == app = "grid" /\ last'.op = "load" /\ last'.req[1] = 1

\* C24 as stated: save_json followed by load_json of that file, the snap
\* setting unchanged, restores every entity's name, final position and
\* offset, per kind and in order, with ids 1..n.
SaveLoadRestores ==
    [][ Reload => Restored ]_vars

\* every final position is one that clamp-then-snap leaves alone under the
\* current snap setting
FinalsApplied ==
    \A u \in DOMAIN ent :
        snap_xy(clamp_xy(final_from_item(ent, u))) = final_from_item(ent, u)

\* C24 amended: the same, for files saved while every final position is one
\* that clamp-then-snap leaves alone (snapping off, or every final on the
\* cell grid); and every load renumbers the ids 1..n per kind and skips the
\* records whose x, y or offset is not a number.
SaveLoadRestoresApplied ==
    [][ /\ (Reload /\ FinalsApplied) => Restored
        /\ (app = "grid" /\ last'.op = "load") => LoadRenumbers ]_vars
\* a reload that brought back an entity with an offset, off the origin
SaveLoadRestoresAppliedWitness ==
    /\ app = "grid"
    /\ last.op = "load"
    /\ last.req[1] = 1
    /\ \E u \in DOMAIN ent :
          /\ ent[u].off_x # 0
          /\ ent[u].base_x # 0
\* a load that skipped a record and kept two others
LoadSkipsWitness ==
    /\ app = "grid"
    /\ last.op = "load"
    /\ last.req[1] = 0
    /\ Len(waypoints) + Len(missions) = 2
    /\ last.req[2] = 3

\* C25: in every reachable state of the grid editor every entity's final
\* position base + offset lies within [-HALF_M, HALF_M] on both axes.
FinalWithinBounds ==
    app = "grid" =>
        \A u \in DOMAIN ent :
            LET f == final_from_item(ent, u)
            IN  /\ -HALF_M <= f[1] /\ f[1] <= HALF_M
                /\ -HALF_M <= f[2] /\ f[2] <= HALF_M

\* an edit that asked for a position beyond the area on both sides: the
\* entity stands on the boundary
FinalWithinBoundsWitness ==
    /\ app = "grid"
    /\ last.op = "xy"
    /\ last.req[1] < -HALF_M \/ last.req[2] > HALF_M
    /\ \E u \in DOMAIN ent :
          LET f == final_from_item(ent, u)
          IN  f[1] = -HALF_M \/ f[2] = HALF_M
\* an offset that pushed the final position to the boundary
OffsetAtBoundaryWitness ==
    /\ app = "grid"
    /\ last.op = "offset"
    /\ \E u \in DOMAIN ent :
          /\ ent[u].off_x # 0
          /\ final_from_item(ent, u)[1] = HALF_M

\* the entities as the edit of the step has stored them before it calls
\* _apply_item_to_scene
EditStored ==
    LET u == last'.u
        q == last'.req
        f == snap_xy(clamp_xy(q))
    IN  IF last'.op = "offset"
        THEN [ent EXCEPT ![u].off_x = q[1], ![u].off_y = q[2]]
        ELSE [ent EXCEPT ![u].base_x = f[1] - ent[u].off_x,
                         ![u].base_y = f[2] - ent[u].off_y]

\* C26: every final-position or offset edit terminates: the chain
\* set_item_final -> _apply_item_to_scene -> setPos -> itemChange ->
\* on_item_moved -> set_item_final emits at most one position change and ends
\* in a fixed point, where applying the item to the scene again changes
\* nothing.
EditChainTerminates ==
    [][ (app = "grid" /\ last'.op \in {"xy", "latlon", "offset"}) =>
            /\ ApplyChainLength(EditStored, last'.u, last'.u) <= 1
            /\ ApplyChainLength(ent', last'.u, last'.u) = 0
            /\ apply_item_to_scene(ent', last'.u, last'.u) = ent'
      ]_vars
\* an edit with snapping on that moved the item, so that the chain was
\* entered once
EditChainTerminatesWitness ==
    /\ app = "grid"
    /\ snap
    /\ last.op = "xy"
    /\ last.u \in scene
    /\ pos(ent, last.u) # meters_to_px(<<0, 0>>)
    /\ final_from_item(ent, last.u) # last.req

\* C27: in the image editor a left click is a calibration pick only while
\* mode 1 or 2 is armed; handling it disarms the mode, also when a prompt is
\* dismissed or its text is no number, and stores at most the one point it
\* was armed for; a click or drag with no mode armed stores none; and
\* set_cal_point with no image loaded arms nothing.
PickModeDisarms ==
    [][ app = "image" =>
          /\ last'.op \in {"pick", "pick_canceled"} =>
                /\ cal.mode \in {1, 2}
                /\ cal'.mode = 0
                /\ cal.mode = 1 => geomap'.p2 = geomap.p2
                /\ cal.mode = 2 => geomap'.p1 = geomap.p1
                /\ last'.op = "pick_canceled" => geomap' = geomap
          /\ last'.op \in {"click", "drag", "drag_none"} =>
                (cal.mode = 0 /\ geomap' = geomap)
          /\ (last'.op = "set_cal_point" /\ cal.image = <<>>) =>
                (cal'.mode = 0 /\ cal' = cal)
      ]_vars
\* a dismissed prompt for P2 after P1 was stored: the mode is disarmed
PickModeDisarmsWitness ==
    /\ app = "image"
    /\ last.op = "pick_canceled"
    /\ last.req[1] = 2
    /\ geomap.p1 # <<>>
    /\ cal.mode = 0
\* set_cal_point pressed while no image is loaded
ArmWithoutImageWitness ==
    app = "image" /\ last.op = "set_cal_point" /\ cal.image = <<>>

\* C28: in the planner the Move button shifts every selected entity by the
\* amounts of the nudge fields, W (nudge_up) metres up the screen and
\* N (nudge_right) metres to the right, whatever the other input fields
\* hold; when a nudge field holds no number, no entity moves.
NudgeUsesNudgeFields ==
    [][ (app = "planner" /\ last'.op \in {"nudge", "nudge_invalid"}) =>
          LET t == last'.req
          IN  \A u \in selected :
                 IF IsNum(t.up) /\ IsNum(t.right)
                 THEN /\ ent'[u].x_px = ent[u].x_px + Val(t.right)
                      /\ ent'[u].y_px = ent[u].y_px - Val(t.up)
                 ELSE /\ ent'[u].x_px = ent[u].x_px
                      /\ ent'[u].y_px = ent[u].y_px
      ]_vars

\* C29: in the planner, in every reachable state, no listed entity is movable
\* while Mode 1 (panel index 0) is shown and every listed entity is movable
\* while Mode 2 (panel index 1) is shown, whenever the entity was created.
MovableTracksMode ==
    app = "planner" =>
        \A u \in Members(missions) \cup Members(waypoints) :
            ent[u].movable = (add_mode = 1)

\* C30: in the surveyor, while the program runs, the waypoint graphics on
\* the scene and the records of waypoints_data correspond one to one: the
\* graphic with wp_id i exists iff i < len(waypoints_data), and record i
\* holds the local x, y of that graphic's position; the latitude and
\* longitude of the record are those of the same point under the origin in
\* force when an add or a drag wrote it.
RecordOf(u) == wpdata[ent[u].wp_id + 1]
GraphicsMatch ==
    (app = "surveyor" /\ ~crashed) =>
        /\ Cardinality(scene) = Len(wpdata)
        /\ { ent[u].wp_id : u \in scene } = 0..(Len(wpdata) - 1)
        /\ \A u \in scene :
              px_to_m(ent[u].x_px, ent[u].y_px) = <<RecordOf(u).x, RecordOf(u).y>>
GraphicsMatchRecords ==
    /\ []GraphicsMatch
    /\ [][ (app = "surveyor" /\ last'.op \in {"add", "drag"}) =>
              LET r == wpdata'[ent'[last'.u].wp_id + 1]
                  o == <<Val(origin[1]), Val(origin[2])>>
              IN  IF last'.op = "add"
                  THEN <<r.x, r.y>> = latlon_to_local_xy(o[1], o[2], r.lat, r.lon)
                  ELSE <<r.lat, r.lon>> = local_xy_to_latlon(o[1], o[2], r.x, r.y)
         ]_vars
\* a waypoint off the origin was added and then dragged
GraphicsMatchRecordsWitness ==
    /\ app = "surveyor" /\ ~crashed
    /\ last.op = "drag"
    /\ Len(wpdata) >= 1
    /\ <<RecordOf(last.u).x, RecordOf(last.u).y>> = px_to_m(last.req[1], last.req[2])
\* a waypoint added after clear_all takes wp_id 0 again
AddAfterClearWitness ==
    /\ app = "surveyor"
    /\ last.op = "add"
    /\ removed # {}
    /\ Len(wpdata) = 1
    /\ ent[last.u].wp_id = 0

====
